---- MODULE Spec2Model ----
(***************************************************************************)
(* Model of the PTY sidecar daemon (sidecar/pty-rust/src/main.rs).         *)
(*                                                                         *)
(* Threads: the accept thread, which runs the request handlers one at a    *)
(* time, and one reader thread per spawned child.  In Spec a step is a     *)
(* section of code that runs under one window mutex, together with the     *)
(* thread-local code and the registry accesses around it (only the accept  *)
(* thread uses the registry); start_window has two such sections.          *)
(* SpecLocks is the same program reduced to its lock operations, one step  *)
(* per acquire and release.                                                *)
(*                                                                         *)
(* Option<T> is a sequence: <<>> for None and <<v>> for Some(v).           *)
(* Bytes are tokens of their UTF-8 class: "a" an ASCII byte, "L" the lead  *)
(* byte of a two-byte character, "c" a continuation byte, "E" the lead     *)
(* byte of U+FFFD; the marker line's fixed text is abbreviated to "[" and  *)
(* "\n" around the pid.                                                    *)
(***************************************************************************)
EXTENDS Integers, Sequences, FiniteSets, TLC

VARIABLES
    sessions,    \* SidecarState.sessions: session name -> env map
    windows,     \* SidecarState.windows: key -> WindowState
    poisoned,    \* keys of the window mutexes that are poisoned
    runs,        \* spawned children with their PTY and reader thread
    pc,          \* position of the accept thread
    req,         \* the request being handled and the handler's locals
    reply,       \* the response written for the last handled request
    running,     \* run_server: the AtomicBool of the accept loop
    socketFile,  \* the socket file exists
    nreq,        \* number of requests accepted so far
    stopped,     \* history: keys of the running windows that stop_window
                 \* stopped and that no start_window has addressed since
    lk,          \* SpecLocks: the lock operations of the threads
    vt,          \* SpecVt: the VtLite of a build_styled_frame call
    vio,         \* SpecVt: the call's arguments, position and result
    vh           \* SpecVt: history of the call, for the properties

dataVars == <<sessions, windows, poisoned, runs, pc, req, reply,
              running, socketFile, nreq, stopped>>

vtVars == <<vt, vio, vh>>

vars == <<dataVars, lk, vtVars>>

----------------------------------------------------------------------------
(* Bounds *)

MaxBufferBytes == 4
MaxRuns == 3
MaxReads == 1
MaxRequests == 4

----------------------------------------------------------------------------
(* Inputs *)

None == <<>>
Some(v) == <<v>>

P == <<"p">>
W == <<"w">>
PW == <<"p", ":", "w">>
WW == <<"w", ":", "w">>

\* the (sessionName, windowName) pairs the controller uses
Pairs == {<<P, W>>, <<P, WW>>, <<PW, W>>}
SessionNames == {pr[1] : pr \in Pairs}
\* the session whose env the controller sets, and the variable it sets
EnvSessions == {P}
EnvKeys == {"TERM"}
EnvVals == {"v1", "v2"}

\* what one read of the PTY can return
Chunks == {<<"a">>, <<"L">>}

\* the keys type_keys is asked to write
KeyInputs == {<<"k">>}

----------------------------------------------------------------------------
(* Pure functions *)

window_key(session_name, window_name) == session_name \o <<":">> \o window_name

max_buffer_bytes == MaxBufferBytes

\* the clock is read as one instant: only whether a timestamp is set matters
now_unix_seconds == 1

ReplacementChar == <<"E", "c", "c">>

RECURSIVE from_utf8_lossy(_)
from_utf8_lossy(bytes) ==
    IF bytes = <<>> THEN <<>>
    ELSE IF Head(bytes) = "a" THEN <<"a">> \o from_utf8_lossy(Tail(bytes))
    ELSE IF Head(bytes) = "L" /\ Len(bytes) >= 2 /\ bytes[2] = "c"
         THEN <<"L", "c">> \o from_utf8_lossy(Tail(Tail(bytes)))
    ELSE ReplacementChar \o from_utf8_lossy(Tail(bytes))

\* str::is_char_boundary: index is a byte offset, 0-based
is_char_boundary(s, index) ==
    \/ index = 0
    \/ index = Len(s)
    \/ index < Len(s) /\ s[index + 1] # "c"

\* format!("[runtime] process started (pid={})\n", pid.unwrap_or(0))
Marker(pid) == <<"[", ToString(IF pid = None THEN 0 ELSE pid[1]), "\n">>

IdleWindow(session_name, window_name) ==
    [session_name |-> session_name, window_name |-> window_name,
     status |-> "idle", pid |-> None, started_at |-> None,
     exited_at |-> None, exit_code |-> None, signal |-> None,
     cols |-> 140, rows |-> 40,
     buffer |-> <<>>, writer |-> None, master |-> None, child |-> None]

Snapshot(w) ==
    [sessionName |-> w.session_name, windowName |-> w.window_name,
     status |-> w.status, pid |-> w.pid, startedAt |-> w.started_at,
     exitedAt |-> w.exited_at, exitCode |-> w.exit_code, signal |-> w.signal]

NoReq == [method |-> "none", session |-> <<>>, key |-> <<>>, run |-> 0]

NoReply == [method |-> "none", ok |-> TRUE, error |-> "", session |-> <<>>,
            key |-> <<>>, stopped |-> FALSE, exists |-> FALSE, windows |-> {},
            buffer |-> <<>>, noop |-> FALSE]

Ok(method) == [NoReply EXCEPT !.method = method]
Err(method, error) == [NoReply EXCEPT !.method = method, !.ok = FALSE, !.error = error]

Put(f, k, v) == [x \in DOMAIN f \cup {k} |-> IF x = k THEN v ELSE f[x]]

----------------------------------------------------------------------------

\* the SidecarState mutex; window mutexes are named by their key
StateLock == <<"state">>

MainThread == 0

LkInit == [script |-> <<>>, keys |-> {}, holder |-> << >>, readers |-> <<>>,
           n |-> 0, exited |-> FALSE]

\* no call of build_styled_frame is in progress
NoVt == [cols |-> 0, rows |-> 0]
NoVio == [pc |-> "none", cols |-> 0, rows |-> 0, left |-> 0, frame |-> <<>>]
NoVh == [entry |-> <<>>, clear |-> <<>>]

Init ==
    /\ lk = LkInit
    /\ vt = NoVt
    /\ vio = NoVio
    /\ vh = NoVh
    /\ sessions = << >>
    /\ windows = << >>
    /\ poisoned = {}
    /\ runs = << >>
    /\ pc = "idle"
    /\ req = NoReq
    /\ reply = NoReply
    /\ running = TRUE
    /\ socketFile = TRUE
    /\ nreq = 0
    /\ stopped = {}

\* the accept loop takes the next connection
Accepting == pc = "idle" /\ running /\ nreq < MaxRequests

\* write_response, then the loop tests should_shutdown
WriteResponse ==
    /\ pc = "respond"
    /\ pc' = IF req.method = "dispose" THEN "ds_exit" ELSE "idle"
    /\ reply' = NoReply
    /\ req' = NoReq
    /\ UNCHANGED <<lk, vtVars, sessions, windows, poisoned, runs, running, socketFile, nreq, stopped>>

Hello ==
    /\ Accepting
    /\ nreq' = nreq + 1
    /\ pc' = "respond"
    /\ reply' = Ok("hello")
    /\ UNCHANGED <<lk, vtVars, sessions, windows, poisoned, runs, req, running, socketFile, stopped>>

\* get_or_create_session with insert in place of entry().or_insert_with()
GetOrCreateSession_Overwrites ==
    /\ Accepting
    /\ \E project_name \in SessionNames :
       \E first_window_name \in {None} \cup
                {Some(pr[2]) : pr \in {q \in Pairs : q[1] = project_name}} :
          /\ sessions' = Put(sessions, project_name, << >>)
          /\ IF first_window_name # None
             THEN windows' = Put(windows, window_key(project_name, first_window_name[1]),
                                 IdleWindow(project_name, first_window_name[1]))
             ELSE UNCHANGED windows
          /\ reply' = [Ok("get_or_create_session") EXCEPT !.key = project_name]
    /\ nreq' = nreq + 1
    /\ pc' = "respond"
    /\ UNCHANGED <<lk, vtVars, poisoned, runs, req, running, socketFile, stopped>>

GetOrCreateSession ==
    /\ Accepting
    /\ \E project_name \in SessionNames :
       \E first_window_name \in {None} \cup
                {Some(pr[2]) : pr \in {q \in Pairs : q[1] = project_name}} :
          /\ sessions' = IF project_name \in DOMAIN sessions THEN sessions
                         ELSE Put(sessions, project_name, << >>)
          /\ IF first_window_name # None
                /\ window_key(project_name, first_window_name[1]) \notin DOMAIN windows
             THEN windows' = Put(windows, window_key(project_name, first_window_name[1]),
                                 IdleWindow(project_name, first_window_name[1]))
             ELSE UNCHANGED windows
          /\ reply' = [Ok("get_or_create_session") EXCEPT !.key = project_name]
    /\ nreq' = nreq + 1
    /\ pc' = "respond"
    /\ UNCHANGED <<lk, vtVars, poisoned, runs, req, running, socketFile, stopped>>

SetSessionEnv ==
    /\ Accepting
    /\ \E session_name \in EnvSessions, key \in EnvKeys, value \in EnvVals :
          LET env == IF session_name \in DOMAIN sessions
                     THEN sessions[session_name] ELSE << >> IN
          sessions' = Put(sessions, session_name, Put(env, key, value))
    /\ nreq' = nreq + 1
    /\ pc' = "respond"
    /\ reply' = Ok("set_session_env")
    /\ UNCHANGED <<lk, vtVars, windows, poisoned, runs, req, running, socketFile, stopped>>

WindowExists ==
    /\ Accepting
    /\ \E pr \in Pairs :
          reply' = [Ok("window_exists") EXCEPT
                      !.key = window_key(pr[1], pr[2]),
                      !.exists = (window_key(pr[1], pr[2]) \in DOMAIN windows)]
    /\ nreq' = nreq + 1
    /\ pc' = "respond"
    /\ UNCHANGED <<lk, vtVars, sessions, windows, poisoned, runs, req, running, socketFile, stopped>>

----------------------------------------------------------------------------
(* with_window: look the record up under the registry lock, release it,    *)
(* then lock the window and run the handler's closure.                     *)

\* the error with_window returns before running the closure, if any
with_window_error(key) ==
    IF key \notin DOMAIN windows THEN Some("window not found")
    ELSE IF key \in poisoned THEN Some("window lock poisoned")
    ELSE None

\* stop_window that drops the handles and leaves the status alone
stop_window_f_KeepsStatus(w, t) ==
    [w EXCEPT !.exited_at = Some(t), !.signal = Some("SIGTERM"),
              !.child = None, !.master = None, !.writer = None]

\* stop_window that also forgets the pid
stop_window_f_ClearsPid(w, t) ==
    [w EXCEPT !.status = "exited", !.exited_at = Some(t),
              !.signal = Some("SIGTERM"), !.pid = None,
              !.child = None, !.master = None, !.writer = None]

\* the closure of stop_window when the record holds a child and kill succeeds
stop_window_f(w, t) ==
    [w EXCEPT !.status = "exited", !.exited_at = Some(t),
              !.signal = Some("SIGTERM"),
              !.child = None, !.master = None, !.writer = None]

StopWindow ==
    /\ Accepting
    /\ \E pr \in Pairs :
          LET key == window_key(pr[1], pr[2]) IN
          IF with_window_error(key) # None
          THEN /\ reply' = [Err("stop_window", with_window_error(key)[1]) EXCEPT !.key = key]
               /\ UNCHANGED <<windows, runs, stopped>>
          ELSE IF windows[key].child # None
          THEN \/ \* child.kill() succeeds
                  /\ windows' = [windows EXCEPT ![key] = stop_window_f(@, now_unix_seconds)]
                  /\ runs' = [runs EXCEPT ![windows[key].child[1]].alive = FALSE]
                  /\ reply' = [Ok("stop_window") EXCEPT !.key = key, !.stopped = TRUE]
                  /\ stopped' = IF windows[key].status = "running"
                                 THEN stopped \cup {key} ELSE stopped
               \/ \* child.kill() fails: the closure returns the error
                  /\ ~runs[windows[key].child[1]].alive
                  /\ reply' = [Err("stop_window", "kill failed") EXCEPT !.key = key]
                  /\ UNCHANGED <<windows, runs, stopped>>
          ELSE /\ reply' = [Ok("stop_window") EXCEPT !.key = key, !.stopped = FALSE]
               /\ UNCHANGED <<windows, runs, stopped>>
    /\ nreq' = nreq + 1
    /\ pc' = "respond"
    /\ UNCHANGED <<lk, vtVars, sessions, poisoned, req, running, socketFile>>

GetWindowBuffer ==
    /\ Accepting
    /\ \E pr \in Pairs :
          LET key == window_key(pr[1], pr[2]) IN
          reply' = IF with_window_error(key) # None
                   THEN [Err("get_window_buffer", with_window_error(key)[1]) EXCEPT !.key = key]
                   ELSE [Ok("get_window_buffer") EXCEPT !.key = key,
                                                        !.buffer = windows[key].buffer]
    /\ nreq' = nreq + 1
    /\ pc' = "respond"
    /\ UNCHANGED <<lk, vtVars, sessions, windows, poisoned, runs, req, running, socketFile, stopped>>

----------------------------------------------------------------------------
(* type_keys and send_enter.  runs[r].input is what was written to the PTY *)
(* of run r.  A request that writes is counted in nreq; one that returns   *)
(* an error changes nothing but the reply and is not.                      *)

\* the error text of a failed write_all
write_error(method) ==
    IF method = "type_keys" THEN "write keys failed" ELSE "write enter failed"

\* with_window, then write_all(bytes) and flush on the stored writer; the
\* write can fail once the child is gone
WriteKeys(method, bytes) ==
    /\ \E pr \in Pairs :
          LET key == window_key(pr[1], pr[2]) IN
          IF with_window_error(key) # None
          THEN /\ reply' = [Err(method, with_window_error(key)[1]) EXCEPT !.key = key]
               /\ UNCHANGED <<runs, nreq>>
          ELSE IF windows[key].writer = None
          THEN /\ reply' = [Err(method, "window writer unavailable") EXCEPT !.key = key]
               /\ UNCHANGED <<runs, nreq>>
          ELSE LET r == windows[key].writer[1] IN
               \/ /\ Accepting
                  /\ runs' = [runs EXCEPT ![r].input = @ \o bytes]
                  /\ reply' = [Ok(method) EXCEPT !.key = key]
                  /\ nreq' = nreq + 1
               \/ /\ ~runs[r].alive
                  /\ reply' = [Err(method, write_error(method)) EXCEPT !.key = key]
                  /\ UNCHANGED <<runs, nreq>>
    /\ pc' = "respond"
    /\ UNCHANGED <<lk, vtVars, sessions, windows, poisoned, req, running, socketFile, stopped>>

TypeKeys ==
    /\ pc = "idle" /\ running
    /\ \E keys \in KeyInputs : WriteKeys("type_keys", keys)

SendEnter ==
    /\ pc = "idle" /\ running
    /\ WriteKeys("send_enter", <<"\r">>)

----------------------------------------------------------------------------
(* start_window *)

\* the session env applied first, the daemon's settings over it
command_env_DaemonWins(env, cols, rows) ==
    LET base == [k \in {"TERM", "COLORTERM", "COLUMNS", "LINES"} |->
                    CASE k = "TERM" -> "xterm-256color"
                      [] k = "COLORTERM" -> "truecolor"
                      [] k = "COLUMNS" -> ToString(cols)
                      [] k = "LINES" -> ToString(rows)]
    IN [k \in DOMAIN base \cup DOMAIN env |->
           IF k \in DOMAIN base THEN base[k] ELSE env[k]]

\* the environment CommandBuilder gives the child: the daemon's settings,
\* overlaid with the session env
command_env(env, cols, rows) ==
    LET base == [k \in {"TERM", "COLORTERM", "COLUMNS", "LINES"} |->
                    CASE k = "TERM" -> "xterm-256color"
                      [] k = "COLORTERM" -> "truecolor"
                      [] k = "COLUMNS" -> ToString(cols)
                      [] k = "LINES" -> ToString(rows)]
    IN [k \in DOMAIN base \cup DOMAIN env |->
           IF k \in DOMAIN env THEN env[k] ELSE base[k]]

\* the idempotence test of start_window
already_running(w) == w.child # None /\ w.status = "running"

\* the first locked section, when the window is not already running
start_begin_f(w, t) ==
    [w EXCEPT !.status = "starting", !.started_at = Some(t),
              !.exited_at = None, !.exit_code = None, !.signal = None,
              !.buffer = <<>>]

\* the second locked section: r is the spawned child with its PTY
start_store_f(w, r, pid) ==
    [w EXCEPT !.status = "running", !.pid = pid,
              !.master = Some(r), !.child = Some(r), !.writer = Some(r),
              !.buffer = w.buffer \o Marker(pid)]

SpawnErrors == {"openpty failed", "spawn failed", "clone reader failed",
                "take writer failed"}

\* start_window up to the spawned child: the env snapshot, the lookup or
\* creation of the record, the first locked section, then openpty,
\* spawn_command, try_clone_reader and take_writer outside every lock
StartWindowBegin ==
    /\ Accepting
    /\ \E pr \in Pairs :
          LET key == window_key(pr[1], pr[2])
              env == IF pr[1] \in DOMAIN sessions THEN sessions[pr[1]] ELSE << >>
              entry == IF key \in DOMAIN windows THEN windows
                       ELSE Put(windows, key, IdleWindow(pr[1], pr[2]))
              w == entry[key]
          IN
          /\ stopped' = stopped \ {key}
          /\ IF key \in poisoned
             THEN /\ reply' = [Err("start_window", "window lock poisoned") EXCEPT
                                  !.session = pr[1], !.key = key]
                  /\ windows' = entry
                  /\ pc' = "respond"
                  /\ UNCHANGED <<runs, req>>
             ELSE IF already_running(w)
             THEN /\ reply' = [Ok("start_window") EXCEPT
                                  !.session = pr[1], !.key = key, !.noop = TRUE]
                  /\ windows' = entry
                  /\ pc' = "respond"
                  /\ UNCHANGED <<runs, req>>
             ELSE /\ windows' = [entry EXCEPT ![key] = start_begin_f(w, now_unix_seconds)]
                  /\ \/ \E e \in SpawnErrors :
                           /\ reply' = [Err("start_window", e) EXCEPT
                                           !.session = pr[1], !.key = key]
                           /\ pc' = "respond"
                           /\ UNCHANGED <<runs, req>>
                     \/ /\ Len(runs) < MaxRuns
                        /\ runs' = Append(runs,
                              [key |-> key, pid |-> Len(runs) + 1, alive |-> TRUE,
                               rd |-> "unborn", nreads |-> 0, input |-> <<>>,
                               env |-> command_env(env, w.cols, w.rows)])
                        /\ req' = [method |-> "start_window", session |-> pr[1],
                                   key |-> key, run |-> Len(runs) + 1]
                        /\ pc' = "sw_store"
                        /\ UNCHANGED reply
    /\ nreq' = nreq + 1
    /\ UNCHANGED <<lk, vtVars, sessions, poisoned, running, socketFile>>

\* the second locked section, the read of max_buffer_bytes and thread::spawn
StartWindowStore ==
    /\ pc = "sw_store"
    /\ IF req.key \in poisoned
       THEN /\ reply' = [Err("start_window", "window lock poisoned") EXCEPT
                           !.session = req.session, !.key = req.key]
            /\ UNCHANGED <<windows, runs>>
       ELSE /\ windows' = [windows EXCEPT ![req.key] =
                              start_store_f(@, req.run, Some(runs[req.run].pid))]
            /\ runs' = [runs EXCEPT ![req.run].rd = "read"]
            /\ reply' = [Ok("start_window") EXCEPT
                           !.session = req.session, !.key = req.key]
    /\ pc' = "respond"
    /\ req' = NoReq
    /\ UNCHANGED <<lk, vtVars, sessions, poisoned, running, socketFile, nreq, stopped>>

----------------------------------------------------------------------------
(* The child process and the reader thread of run r *)

\* the daemon process has not exited
ProcessUp == pc # "done"

\* the child exits on its own
ChildExit(r) ==
    /\ ProcessUp
    /\ runs[r].alive
    /\ runs' = [runs EXCEPT ![r].alive = FALSE]
    /\ UNCHANGED <<lk, vtVars, sessions, windows, poisoned, pc, req, reply, running, socketFile, nreq, stopped>>

\* Ok(0) that changes the status only
reader_eof_f_NoExitedAt(w, t) ==
    IF w.status = "running" \/ w.status = "starting"
    THEN [w EXCEPT !.status = "exited"]
    ELSE w

\* Ok(0)
reader_eof_f(w, t) ==
    IF w.status = "running" \/ w.status = "starting"
    THEN [w EXCEPT !.status = "exited", !.exited_at = Some(t)]
    ELSE w

\* Err(_)
reader_err_f(w, t) == [w EXCEPT !.status = "error", !.exited_at = Some(t)]

\* A read returns 0 or an error only once the child is gone.  With the mutex
\* poisoned, lock() is Err and the branch does nothing.
ReaderEof(r) ==
    /\ ProcessUp
    /\ runs[r].rd = "read"
    /\ ~runs[r].alive
    /\ windows' = IF runs[r].key \in poisoned THEN windows
                  ELSE [windows EXCEPT ![runs[r].key] = reader_eof_f(@, now_unix_seconds)]
    /\ runs' = [runs EXCEPT ![r].rd = "done"]
    /\ UNCHANGED <<lk, vtVars, sessions, poisoned, pc, req, reply, running, socketFile, nreq, stopped>>

ReaderErr(r) ==
    /\ ProcessUp
    /\ runs[r].rd = "read"
    /\ ~runs[r].alive
    /\ windows' = IF runs[r].key \in poisoned THEN windows
                  ELSE [windows EXCEPT ![runs[r].key] = reader_err_f(@, now_unix_seconds)]
    /\ runs' = [runs EXCEPT ![r].rd = "done"]
    /\ UNCHANGED <<lk, vtVars, sessions, poisoned, pc, req, reply, running, socketFile, nreq, stopped>>

\* Ok(n): push the decoded text, then cut the front down to the cap.
\* The slice panics when keep is not a char boundary: the push stays, the
\* assignment does not happen, the guard is dropped by the unwinding thread
\* and the mutex is poisoned.  The PTY can still hold output after the child
\* is gone.
ReaderData(r) ==
    /\ ProcessUp
    /\ runs[r].rd = "read"
    /\ runs[r].nreads < MaxReads
    /\ \E chunk \in Chunks :
          LET key == runs[r].key
              pushed == windows[key].buffer \o from_utf8_lossy(chunk)
              keep == Len(pushed) - max_buffer_bytes
          IN
          IF key \in poisoned
          THEN /\ runs' = [runs EXCEPT ![r].nreads = @ + 1]
               /\ UNCHANGED <<windows, poisoned>>
          ELSE IF Len(pushed) > max_buffer_bytes /\ ~is_char_boundary(pushed, keep)
          THEN /\ windows' = [windows EXCEPT ![key].buffer = pushed]
               /\ poisoned' = poisoned \cup {key}
               /\ runs' = [runs EXCEPT ![r].rd = "panicked", ![r].nreads = @ + 1]
          ELSE /\ windows' = [windows EXCEPT ![key].buffer =
                                 IF Len(pushed) > max_buffer_bytes
                                 THEN SubSeq(pushed, keep + 1, Len(pushed))
                                 ELSE pushed]
               /\ runs' = [runs EXCEPT ![r].nreads = @ + 1]
               /\ UNCHANGED poisoned
    /\ UNCHANGED <<lk, vtVars, sessions, pc, req, reply, running, socketFile, nreq, stopped>>

----------------------------------------------------------------------------
(* list_windows: every window is locked in turn under the registry lock *)

\* the filter_map closure of list_windows; lock_ok is window.lock().ok()
list_filter(session_filter, lock_ok, w) ==
    IF ~lock_ok THEN None
    ELSE IF session_filter # None /\ w.session_name # session_filter[1] THEN None
    ELSE Some(Snapshot(w))

\* guard.windows.values().filter_map(..).collect(), over the keys in ks
RECURSIVE list_collect(_, _)
list_collect(session_filter, ks) ==
    IF ks = {} THEN <<>>
    ELSE LET key == CHOOSE k \in ks : TRUE IN
         list_filter(session_filter, key \notin poisoned, windows[key])
            \o list_collect(session_filter, ks \ {key})

ListWindows ==
    /\ Accepting
    /\ \E session_filter \in {None} \cup {Some(sn) : sn \in SessionNames} :
          reply' = [Ok("list_windows") EXCEPT
                      !.windows = list_collect(session_filter, DOMAIN windows),
                      !.key = session_filter]
    /\ nreq' = nreq + 1
    /\ pc' = "respond"
    /\ UNCHANGED <<lk, vtVars, sessions, windows, poisoned, runs, req, running, socketFile, stopped>>

----------------------------------------------------------------------------
(* dispose *)

dispose_f(w, t) ==
    [w EXCEPT !.child = None, !.writer = None, !.master = None,
              !.status = "exited", !.exited_at = Some(t)]

\* dispose that also empties the registry
Dispose_ClearsRegistry ==
    /\ Accepting
    /\ windows' = << >>
    /\ runs' = [r \in DOMAIN runs |-> [runs[r] EXCEPT !.alive = FALSE]]
    /\ req' = [NoReq EXCEPT !.method = "dispose"]
    /\ reply' = Ok("dispose")
    /\ nreq' = nreq + 1
    /\ pc' = "respond"
    /\ UNCHANGED <<lk, vtVars, sessions, poisoned, running, socketFile, stopped>>

Dispose ==
    /\ Accepting
    /\ windows' = [key \in DOMAIN windows |->
                     IF key \in poisoned THEN windows[key]
                     ELSE dispose_f(windows[key], now_unix_seconds)]
    /\ runs' = [r \in DOMAIN runs |->
                  IF \E key \in DOMAIN windows \ poisoned : windows[key].child = Some(r)
                  THEN [runs[r] EXCEPT !.alive = FALSE]
                  ELSE runs[r]]
    /\ req' = [NoReq EXCEPT !.method = "dispose"]
    /\ reply' = Ok("dispose")
    /\ nreq' = nreq + 1
    /\ pc' = "respond"
    /\ UNCHANGED <<lk, vtVars, sessions, poisoned, running, socketFile, stopped>>

\* running.store(false), the loop ends, the socket file is removed and the
\* process exits with its reader threads
ServerExit ==
    /\ pc = "ds_exit"
    /\ running' = FALSE
    /\ socketFile' = FALSE
    /\ pc' = "done"
    /\ UNCHANGED <<lk, vtVars, sessions, windows, poisoned, runs, req, reply, nreq, stopped>>

----------------------------------------------------------------------------

Runs == 1..Len(runs)

Next ==
    \/ WriteResponse
    \/ Hello
    \/ GetOrCreateSession
    \/ SetSessionEnv
    \/ WindowExists
    \/ StopWindow
    \/ GetWindowBuffer
    \/ StartWindowBegin
    \/ StartWindowStore
    \/ \E r \in Runs : ChildExit(r)
    \/ \E r \in Runs : ReaderEof(r)
    \/ \E r \in Runs : ReaderErr(r)
    \/ \E r \in Runs : ReaderData(r)
    \/ ListWindows
    \/ Dispose
    \/ ServerExit

Spec == Init /\ [][Next]_vars

\* Ok(0) or Err(_) with the loop going on in place of break
ReaderEnd_NoBreak(r) ==
    /\ r \in Runs
    /\ ProcessUp
    /\ runs[r].rd = "read"
    /\ ~runs[r].alive
    /\ windows' = IF runs[r].key \in poisoned THEN windows
                  ELSE [windows EXCEPT ![runs[r].key] = reader_eof_f(@, now_unix_seconds)]
    /\ UNCHANGED <<lk, vtVars, sessions, poisoned, runs, pc, req, reply, running, socketFile, nreq, stopped>>

\* the read of reader thread r returns Ok(0) or Err(_): the thread updates
\* the record if it gets the lock, and breaks out of its loop
ReaderEnd(r) ==
    /\ r \in Runs
    /\ ReaderEof(r) \/ ReaderErr(r)

\* the windows started and stopped, with their children and reader threads
NextStop ==
    \/ WriteResponse
    \/ StopWindow
    \/ StartWindowBegin
    \/ StartWindowStore
    \/ \E r \in Runs : ChildExit(r)
    \/ \E r \in Runs : ReaderData(r)
    \/ \E r \in 1..MaxRuns : ReaderEnd(r)
    \/ Dispose
    \/ ServerExit

\* A read of a PTY whose child is gone returns, and the window lock is held
\* only for the length of a handler's closure or of a reader's update: a
\* reader thread whose read can return 0 or an error is not delayed forever.
SpecFair ==
    /\ Init
    /\ [][NextStop]_vars
    /\ \A r \in 1..MaxRuns : WF_vars(ReaderEnd(r))

\* the daemon with the requests that create, start, stop and write to windows
NextKeys ==
    \/ WriteResponse
    \/ GetOrCreateSession
    \/ StopWindow
    \/ StartWindowBegin
    \/ StartWindowStore
    \/ TypeKeys
    \/ SendEnter
    \/ \E r \in Runs : ChildExit(r)
    \/ \E r \in Runs : ReaderEof(r)
    \/ \E r \in Runs : ReaderErr(r)
    \/ \E r \in Runs : ReaderData(r)
    \/ Dispose
    \/ ServerExit

SpecKeys == Init /\ [][NextKeys]_vars

----------------------------------------------------------------------------
(* SpecLocks: the handlers and the reader loop as sequences of lock        *)
(* operations.  lk.holder maps a held lock to its thread: MainThread for   *)
(* the accept thread, r > 0 for the r-th reader thread.                    *)

Acq(l) == [op |-> "acq", lock |-> l]
Rel(l) == [op |-> "rel", lock |-> l]
SpawnReader(key) == [op |-> "spawn", lock |-> key]

\* all the orders in which a map's values can be iterated
RECURSIVE Orders(_)
Orders(ks) ==
    IF ks = {} THEN {<<>>}
    ELSE UNION {{<<k>> \o o : o \in Orders(ks \ {k})} : k \in ks}

RECURSIVE lock_each(_)
lock_each(order) ==
    IF order = <<>> THEN <<>>
    ELSE <<Acq(Head(order)), Rel(Head(order))>> \o lock_each(Tail(order))

\* get_or_create_session, set_session_env, window_exists
registry_locks == <<Acq(StateLock), Rel(StateLock)>>

\* with_window; found: the key is registered
with_window_locks(key, found) ==
    <<Acq(StateLock), Rel(StateLock)>>
        \o (IF found THEN <<Acq(key), Rel(key)>> ELSE <<>>)

\* start_window reading max_buffer_bytes inside its second locked section
start_window_locks_Nested(key, spawned) ==
    <<Acq(StateLock), Rel(StateLock), Acq(StateLock), Rel(StateLock),
      Acq(key), Rel(key)>>
        \o (IF spawned
            THEN <<Acq(key), Acq(StateLock), Rel(StateLock), Rel(key),
                   SpawnReader(key)>>
            ELSE <<>>)

\* start_window; spawned: it gets past the idempotence test and the spawn
start_window_locks(key, spawned) ==
    <<Acq(StateLock), Rel(StateLock), Acq(StateLock), Rel(StateLock),
      Acq(key), Rel(key)>>
        \o (IF spawned
            THEN <<Acq(key), Rel(key), Acq(StateLock), Rel(StateLock),
                   SpawnReader(key)>>
            ELSE <<>>)

list_windows_locks(order) ==
    <<Acq(StateLock)>> \o lock_each(order) \o <<Rel(StateLock)>>

dispose_locks(order) ==
    <<Acq(StateLock), Rel(StateLock)>> \o lock_each(order)
        \o <<[op |-> "exit", lock |-> StateLock]>>

HeldBy(t) == {l \in DOMAIN lk.holder : lk.holder[l] = t}

LkAccept ==
    /\ lk.script = <<>>
    /\ ~lk.exited
    /\ lk.n < MaxRequests
    /\ \/ lk' = [lk EXCEPT !.script = registry_locks, !.n = @ + 1]
       \/ \E pr \in Pairs :
             \* get_or_create_session with firstWindowName
             lk' = [lk EXCEPT !.script = registry_locks, !.n = @ + 1,
                              !.keys = @ \cup {window_key(pr[1], pr[2])}]
       \/ \E pr \in Pairs :
             lk' = [lk EXCEPT !.script =
                                 with_window_locks(window_key(pr[1], pr[2]),
                                                   window_key(pr[1], pr[2]) \in lk.keys),
                              !.n = @ + 1]
       \/ \E pr \in Pairs, spawned \in BOOLEAN :
             /\ spawned => Len(lk.readers) < MaxRuns
             /\ lk' = [lk EXCEPT !.script =
                                    start_window_locks(window_key(pr[1], pr[2]), spawned),
                                 !.n = @ + 1,
                                 !.keys = @ \cup {window_key(pr[1], pr[2])}]
       \/ \E order \in Orders(lk.keys) :
             lk' = [lk EXCEPT !.script = list_windows_locks(order), !.n = @ + 1]
       \/ \E order \in Orders(lk.keys) :
             lk' = [lk EXCEPT !.script = dispose_locks(order), !.n = @ + 1]
    /\ UNCHANGED <<dataVars, vtVars>>

LkAcquire ==
    /\ lk.script # <<>>
    /\ Head(lk.script).op = "acq"
    /\ Head(lk.script).lock \notin DOMAIN lk.holder
    /\ lk' = [lk EXCEPT !.script = Tail(@),
                        !.holder = Put(@, Head(lk.script).lock, MainThread)]
    /\ UNCHANGED <<dataVars, vtVars>>

Drop(f, k) == [x \in DOMAIN f \ {k} |-> f[x]]

LkRelease ==
    /\ lk.script # <<>>
    /\ Head(lk.script).op = "rel"
    /\ lk' = [lk EXCEPT !.script = Tail(@),
                        !.holder = Drop(@, Head(lk.script).lock)]
    /\ UNCHANGED <<dataVars, vtVars>>

\* thread::spawn at the end of start_window
LkSpawn ==
    /\ lk.script # <<>>
    /\ Head(lk.script).op = "spawn"
    /\ lk' = [lk EXCEPT !.script = Tail(@),
                        !.readers = Append(@, [key |-> Head(lk.script).lock,
                                               st |-> "read"])]
    /\ UNCHANGED <<dataVars, vtVars>>

\* the accept loop ends after dispose and the process exits
LkExit ==
    /\ lk.script # <<>>
    /\ Head(lk.script).op = "exit"
    /\ lk' = [lk EXCEPT !.script = Tail(@), !.exited = TRUE]
    /\ UNCHANGED <<dataVars, vtVars>>

\* the reader takes its window's lock after a read returned
LkReaderAcquire(r) ==
    /\ ~lk.exited
    /\ lk.readers[r].st = "read"
    /\ lk.readers[r].key \notin DOMAIN lk.holder
    /\ lk' = [lk EXCEPT !.readers[r].st = "locked",
                        !.holder = Put(@, lk.readers[r].key, r)]
    /\ UNCHANGED <<dataVars, vtVars>>

\* the guard is dropped; the loop goes on after data and ends otherwise
LkReaderRelease(r) ==
    /\ ~lk.exited
    /\ lk.readers[r].st = "locked"
    /\ \E st \in {"read", "done"} :
          lk' = [lk EXCEPT !.readers[r].st = st,
                           !.holder = Drop(@, lk.readers[r].key)]
    /\ UNCHANGED <<dataVars, vtVars>>

LockNext ==
    \/ LkAccept
    \/ LkAcquire
    \/ LkRelease
    \/ LkSpawn
    \/ LkExit
    \/ \E r \in DOMAIN lk.readers : LkReaderAcquire(r)
    \/ \E r \in DOMAIN lk.readers : LkReaderRelease(r)

SpecLocks == Init /\ [][LockNext]_vars

----------------------------------------------------------------------------
(* VT emulator: build_styled_frame (sidecar/pty-rust/src/vt_lite.rs).      *)
(*                                                                         *)
(* A char is a string: a one-character string for a printable ASCII char,  *)
(* a name for the others ("ESC", "BEL", "BS", "TAB", "LF", "CR", "DEL",    *)
(* "CM" for U+0301, "ZWJ" for U+200D, "VS" for U+FE0F, "NBSP" for U+00A0). *)
(* Rows, columns and params are 0-based as in the code; a Vec is a         *)
(* sequence, so lines[row] of the code is lines[row + 1] here.             *)

\* char as u32
CodePoint(ch) ==
    CASE ch = "BEL" -> 7   [] ch = "BS" -> 8    [] ch = "TAB" -> 9
      [] ch = "LF" -> 10   [] ch = "CR" -> 13   [] ch = "ESC" -> 27
      [] ch = " " -> 32    [] ch = "+" -> 43    [] ch = "-" -> 45
      [] ch = "0" -> 48    [] ch = "1" -> 49    [] ch = "2" -> 50
      [] ch = "3" -> 51    [] ch = "4" -> 52    [] ch = "5" -> 53
      [] ch = "6" -> 54    [] ch = "7" -> 55    [] ch = "8" -> 56
      [] ch = "9" -> 57    [] ch = ";" -> 59    [] ch = "=" -> 61
      [] ch = "?" -> 63    [] ch = "A" -> 65    [] ch = "B" -> 66
      [] ch = "C" -> 67    [] ch = "D" -> 68    [] ch = "E" -> 69
      [] ch = "G" -> 71    [] ch = "H" -> 72    [] ch = "J" -> 74
      [] ch = "K" -> 75    [] ch = "M" -> 77    [] ch = "[" -> 91
      [] ch = "\\" -> 92   [] ch = "]" -> 93    [] ch = "a" -> 97
      [] ch = "b" -> 98    [] ch = "c" -> 99    [] ch = "d" -> 100
      [] ch = "e" -> 101   [] ch = "f" -> 102   [] ch = "h" -> 104
      [] ch = "l" -> 108   [] ch = "m" -> 109   [] ch = "n" -> 110
      [] ch = "o" -> 111   [] ch = "r" -> 114   [] ch = "s" -> 115
      [] ch = "u" -> 117   [] ch = "y" -> 121
      [] ch = "DEL" -> 127 [] ch = "NBSP" -> 160
      [] ch = "CM" -> 769  [] ch = "ZWJ" -> 8205 [] ch = "VS" -> 65039

I32Max == 2147483647
I32Min == (0 - I32Max) - 1

Digits == {"0", "1", "2", "3", "4", "5", "6", "7", "8", "9"}

\* the digits of part.parse::<i32>(): checked_mul(10) then checked_add(d),
\* or checked_sub(d) after a minus sign; None on a non-digit or overflow
RECURSIVE parse_digits(_, _, _)
parse_digits(part, acc, negative) ==
    IF part = <<>> THEN Some(acc)
    ELSE IF Head(part) \notin Digits THEN None
    ELSE LET d == CodePoint(Head(part)) - 48 IN
         IF negative
         THEN IF acc < (I32Min + d + 9) \div 10 THEN None
              ELSE parse_digits(Tail(part), acc * 10 - d, negative)
         ELSE IF acc > (I32Max - d) \div 10 THEN None
              ELSE parse_digits(Tail(part), acc * 10 + d, negative)

\* part.parse::<i32>().ok(): an optional sign, then at least one digit
parse_i32(part) ==
    LET signed == part # <<>> /\ Head(part) \in {"+", "-"}
        digits == IF signed THEN Tail(part) ELSE part
    IN IF digits = <<>> THEN None
       ELSE parse_digits(digits, 0, signed /\ Head(part) = "-")

\* raw.split(';')
RECURSIVE split_semicolon(_, _)
split_semicolon(raw, part) ==
    IF raw = <<>> THEN <<part>>
    ELSE IF Head(raw) = ";" THEN <<part>> \o split_semicolon(Tail(raw), <<>>)
    ELSE split_semicolon(Tail(raw), Append(part, Head(raw)))

parse_params(raw) ==
    IF raw = <<>> THEN <<None>>
    ELSE LET parts == split_semicolon(raw, <<>>) IN
         [i \in DOMAIN parts |->
             IF parts[i] = <<>> THEN None ELSE parse_i32(parts[i])]

\* params.get(index).and_then(|v| *v); index is 0-based
param_get(params, index) ==
    IF index + 1 \in DOMAIN params THEN params[index + 1] ELSE None

param_or(params, index, default) ==
    IF param_get(params, index) = None THEN default ELSE param_get(params, index)[1]

Min(a, b) == IF a < b THEN a ELSE b
Max(a, b) == IF a > b THEN a ELSE b
saturating_sub(a, b) == IF a > b THEN a - b ELSE 0
clamp(x, lo, hi) == IF x < lo THEN lo ELSE IF x > hi THEN hi ELSE x

----------------------------------------------------------------------------
(* Styles, cells and colours *)

DefaultStyle == [fg |-> None, bg |-> None, bold |-> FALSE, italic |-> FALSE,
                 underline |-> FALSE, inverse |-> FALSE]

blank_cell == [text |-> <<" ">>, style |-> DefaultStyle]

make_row(cols) == [c \in 1..cols |-> blank_cell]

\* vec![make_row(cols); rows]
make_lines(cols, rows) == [r \in 1..rows |-> make_row(cols)]

Palette == <<"#000000", "#cd3131", "#0dbc79", "#e5e510", "#2472c8", "#bc3fbc",
             "#11a8cd", "#e5e5e5", "#666666", "#f14c4c", "#23d18b", "#f5f543",
             "#3b8eea", "#d670d6", "#29b8db", "#ffffff">>

\* palette.get(index)
ansi_16_color(index) ==
    IF index + 1 \in DOMAIN Palette THEN Some(Palette[index + 1]) ELSE None

HexDigit == <<"0", "1", "2", "3", "4", "5", "6", "7", "8", "9",
              "a", "b", "c", "d", "e", "f">>

\* {:02x} of a value in 0..255
Hex2(n) == HexDigit[(n \div 16) + 1] \o HexDigit[(n % 16) + 1]

rgb_hex(r, g, b) ==
    "#" \o Hex2(clamp(r, 0, 255)) \o Hex2(clamp(g, 0, 255)) \o Hex2(clamp(b, 0, 255))

CubeLevels == <<0, 95, 135, 175, 215, 255>>

xterm_256_color(index) ==
    IF index < 0 \/ index > 255 THEN None
    ELSE IF index < 16 THEN ansi_16_color(index)
    ELSE IF index >= 232
         THEN LET v == 8 + (index - 232) * 10 IN Some(rgb_hex(v, v, v))
    ELSE LET i == index - 16 IN
         Some(rgb_hex(CubeLevels[(i \div 36) + 1],
                      CubeLevels[((i % 36) \div 6) + 1],
                      CubeLevels[(i % 6) + 1]))

char_display_width(ch) ==
    LET cp == CodePoint(ch) IN
    IF cp = 0 THEN 0
    ELSE IF cp < 32 \/ (cp >= 127 /\ cp < 160) THEN 0
    ELSE IF \/ (cp >= 768 /\ cp <= 879)      \* 0x0300..=0x036f
            \/ (cp >= 6832 /\ cp <= 6911)    \* 0x1ab0..=0x1aff
            \/ (cp >= 7616 /\ cp <= 7679)    \* 0x1dc0..=0x1dff
            \/ (cp >= 8400 /\ cp <= 8447)    \* 0x20d0..=0x20ff
            \/ (cp >= 65056 /\ cp <= 65071)  \* 0xfe20..=0xfe2f
            \/ cp = 8205                     \* 0x200d
            \/ (cp >= 65024 /\ cp <= 65039)  \* 0xfe00..=0xfe0f
         THEN 0
    ELSE 1

\* the extended colour of SGR 38 / 48 at params[i], when it is well formed
sgr_extended(style, params, i) ==
    LET is_fg == param_or(params, i, 0) = 38
        mode == param_get(params, i + 1)
        r == param_get(params, i + 2)
        g == param_get(params, i + 3)
        b == param_get(params, i + 4)
        idx == IF param_get(params, i + 2) = None THEN None
               ELSE xterm_256_color(param_get(params, i + 2)[1])
    IN IF mode = Some(2)
       THEN IF r # None /\ g # None /\ b # None
            THEN IF is_fg THEN [style EXCEPT !.fg = Some(rgb_hex(r[1], g[1], b[1]))]
                 ELSE [style EXCEPT !.bg = Some(rgb_hex(r[1], g[1], b[1]))]
            ELSE style
       ELSE IF mode = Some(5)
       THEN IF idx # None
            THEN IF is_fg THEN [style EXCEPT !.fg = idx]
                 ELSE [style EXCEPT !.bg = idx]
            ELSE style
       ELSE style

\* how far SGR 38 / 48 moves i on top of the loop's own i += 1
sgr_extended_skip(params, i) ==
    IF param_get(params, i + 1) = Some(2) THEN 4
    ELSE IF param_get(params, i + 1) = Some(5) THEN 2
    ELSE 0

\* one code of apply_sgr
sgr_code(style, params, i) ==
    LET code == param_or(params, i, 0) IN
    CASE code = 0 -> DefaultStyle
      [] code = 1 -> [style EXCEPT !.bold = TRUE]
      [] code = 3 -> [style EXCEPT !.italic = TRUE]
      [] code = 4 -> [style EXCEPT !.underline = TRUE]
      [] code = 7 -> [style EXCEPT !.inverse = TRUE]
      [] code = 22 -> [style EXCEPT !.bold = FALSE]
      [] code = 23 -> [style EXCEPT !.italic = FALSE]
      [] code = 24 -> [style EXCEPT !.underline = FALSE]
      [] code = 27 -> [style EXCEPT !.inverse = FALSE]
      [] code >= 30 /\ code <= 37 -> [style EXCEPT !.fg = ansi_16_color(code - 30)]
      [] code = 39 -> [style EXCEPT !.fg = None]
      [] code >= 40 /\ code <= 47 -> [style EXCEPT !.bg = ansi_16_color(code - 40)]
      [] code = 49 -> [style EXCEPT !.bg = None]
      [] code >= 90 /\ code <= 97 -> [style EXCEPT !.fg = ansi_16_color(code - 90 + 8)]
      [] code >= 100 /\ code <= 107 -> [style EXCEPT !.bg = ansi_16_color(code - 100 + 8)]
      [] code = 38 \/ code = 48 -> sgr_extended(style, params, i)
      [] OTHER -> style

\* the while loop of apply_sgr from index i
RECURSIVE sgr_loop(_, _, _)
sgr_loop(style, params, i) ==
    IF i >= Len(params) THEN style
    ELSE LET code == param_or(params, i, 0)
             skip == IF code = 38 \/ code = 48 THEN sgr_extended_skip(params, i) ELSE 0
         IN sgr_loop(sgr_code(style, params, i), params, i + skip + 1)

apply_sgr(v, params) ==
    IF params = <<>> THEN [v EXCEPT !.style = DefaultStyle]
    ELSE [v EXCEPT !.style = sgr_loop(v.style, params, 0)]

----------------------------------------------------------------------------
(* VtLite.  The field panic is set when the code indexes a Vec out of range *)
(* (the call unwinds); nothing is processed after it.                      *)

VtLite_new(cols, rows) ==
    [cols |-> cols, rows |-> rows,
     lines |-> make_lines(cols, rows),
     cursor_row |-> 0, cursor_col |-> 0,
     saved_row |-> 0, saved_col |-> 0,
     style |-> DefaultStyle,
     scroll_top |-> 0, scroll_bottom |-> saturating_sub(rows, 1),
     wrap_pending |-> FALSE, cursor_visible |-> TRUE,
     saved_primary |-> None,
     panic |-> FALSE]

\* Vec::remove and Vec::insert; index is 0-based
vec_remove(seq, index) ==
    SubSeq(seq, 1, index) \o SubSeq(seq, index + 2, Len(seq))

vec_insert(seq, index, x) ==
    SubSeq(seq, 1, index) \o <<x>> \o SubSeq(seq, index + 1, Len(seq))

\* self.lines[row][col] = cell
set_cell(v, row, col, cell) ==
    IF row < Len(v.lines) /\ col < Len(v.lines[row + 1])
    THEN [v EXCEPT !.lines[row + 1][col + 1] = cell]
    ELSE [v EXCEPT !.panic = TRUE]

\* self.lines[row] = make_row(self.cols)
set_row(v, row) ==
    IF row < Len(v.lines)
    THEN [v EXCEPT !.lines[row + 1] = make_row(v.cols)]
    ELSE [v EXCEPT !.panic = TRUE]

\* for col in from..to { self.lines[row][col] = blank_cell() }
blank_cols(v, row, from, to) ==
    IF from >= to THEN v
    ELSE IF row >= Len(v.lines) THEN [v EXCEPT !.panic = TRUE]
    ELSE [v EXCEPT !.lines[row + 1] =
                       [c \in DOMAIN @ |-> IF c - 1 >= from /\ c - 1 < to
                                            THEN blank_cell ELSE @[c]],
                   !.panic = to > Len(v.lines[row + 1])]

\* for row in from..to { self.lines[row] = make_row(self.cols) }
blank_rows(v, from, to) ==
    IF from >= to \/ v.panic THEN v
    ELSE [v EXCEPT !.lines = [r \in DOMAIN @ |-> IF r - 1 >= from /\ r - 1 < to
                                                 THEN make_row(v.cols) ELSE @[r]],
                   !.panic = to > Len(v.lines)]

erase_line(v, mode) ==
    CASE mode = 0 -> blank_cols(v, v.cursor_row, v.cursor_col, v.cols)
      [] mode = 1 -> blank_cols(v, v.cursor_row, 0,
                                Min(v.cursor_col, saturating_sub(v.cols, 1)) + 1)
      [] mode = 2 -> set_row(v, v.cursor_row)
      [] OTHER -> v

erase_display_FromCursor(v, mode) ==
    blank_rows(erase_line(v, 0), v.cursor_row + 1, v.rows)

erase_display(v, mode) ==
    CASE mode = 0 -> blank_rows(erase_line(v, 0), v.cursor_row + 1, v.rows)
      [] mode = 1 -> erase_line(blank_rows(v, 0, v.cursor_row), 1)
      [] mode = 2 \/ mode = 3 -> blank_rows(v, 0, v.rows)
      [] OTHER -> v

scroll_up_once_NoInsert(v, top, bottom) ==
    [v EXCEPT !.lines = vec_remove(v.lines, top)]

\* one round of the loop of scroll_region_up
scroll_up_once(v, top, bottom) ==
    IF top >= Len(v.lines) \/ bottom > Len(v.lines) - 1
    THEN [v EXCEPT !.panic = TRUE]
    ELSE [v EXCEPT !.lines = vec_insert(vec_remove(v.lines, top), bottom, make_row(v.cols))]

RECURSIVE scroll_up_times(_, _, _, _)
scroll_up_times(v, top, bottom, n) ==
    IF n = 0 \/ v.panic THEN v
    ELSE scroll_up_times(scroll_up_once(v, top, bottom), top, bottom, n - 1)

scroll_region_up_FromZero(v, top, bottom, count) ==
    IF top >= bottom \/ bottom >= v.rows THEN v
    ELSE scroll_up_times(v, 0, bottom, Min(Max(count, 1), bottom - top + 1))

scroll_region_up(v, top, bottom, count) ==
    IF top >= bottom \/ bottom >= v.rows THEN v
    ELSE scroll_up_times(v, top, bottom, Min(Max(count, 1), bottom - top + 1))

\* one round of the loop of scroll_region_down
scroll_down_once(v, top, bottom) ==
    IF bottom >= Len(v.lines) \/ top > Len(v.lines) - 1
    THEN [v EXCEPT !.panic = TRUE]
    ELSE [v EXCEPT !.lines = vec_insert(vec_remove(v.lines, bottom), top, make_row(v.cols))]

RECURSIVE scroll_down_times(_, _, _, _)
scroll_down_times(v, top, bottom, n) ==
    IF n = 0 \/ v.panic THEN v
    ELSE scroll_down_times(scroll_down_once(v, top, bottom), top, bottom, n - 1)

scroll_region_down(v, top, bottom, count) ==
    IF top >= bottom \/ bottom >= v.rows THEN v
    ELSE scroll_down_times(v, top, bottom, Min(Max(count, 1), bottom - top + 1))

line_feed(v) ==
    IF v.cursor_row >= v.scroll_top /\ v.cursor_row <= v.scroll_bottom
    THEN IF v.cursor_row = v.scroll_bottom
         THEN scroll_region_up(v, v.scroll_top, v.scroll_bottom, 1)
         ELSE [v EXCEPT !.cursor_row = Min(v.cursor_row + 1, saturating_sub(v.rows, 1))]
    ELSE [v EXCEPT !.cursor_row = Min(v.cursor_row + 1, saturating_sub(v.rows, 1))]

reverse_index(v) ==
    IF v.cursor_row >= v.scroll_top /\ v.cursor_row <= v.scroll_bottom
    THEN IF v.cursor_row = v.scroll_top
         THEN scroll_region_down(v, v.scroll_top, v.scroll_bottom, 1)
         ELSE [v EXCEPT !.cursor_row = saturating_sub(v.cursor_row, 1)]
    ELSE [v EXCEPT !.cursor_row = saturating_sub(v.cursor_row, 1)]

\* write_char for a zero-width char
write_zero_width(v, ch) ==
    LET prev_col == IF v.cursor_col > 0 THEN v.cursor_col - 1 ELSE v.cursor_col IN
    IF v.cursor_row < v.rows /\ prev_col < v.cols
    THEN IF v.cursor_row < Len(v.lines) /\ prev_col < Len(v.lines[v.cursor_row + 1])
         THEN [v EXCEPT !.lines[v.cursor_row + 1][prev_col + 1].text = Append(@, ch)]
         ELSE [v EXCEPT !.panic = TRUE]
    ELSE v

write_wide_Advances(v, ch) ==
    LET v3 == set_cell(v, v.cursor_row, v.cursor_col, [text |-> <<ch>>, style |-> v.style])
    IN [v3 EXCEPT !.cursor_col = @ + 1]

\* write_char for a char of width 1
write_wide(v, ch) ==
    LET v1 == IF v.wrap_pending
              THEN [line_feed([v EXCEPT !.cursor_col = 0]) EXCEPT !.wrap_pending = FALSE]
              ELSE v
        v2 == IF v1.cursor_col >= v1.cols
              THEN line_feed([v1 EXCEPT !.cursor_col = 0])
              ELSE v1
        v3 == set_cell(v2, v2.cursor_row, v2.cursor_col,
                       [text |-> <<ch>>, style |-> v2.style])
    IN IF v1.panic \/ v2.panic \/ v3.panic THEN [v3 EXCEPT !.panic = TRUE]
       ELSE IF v3.cursor_col >= saturating_sub(v3.cols, 1)
            THEN [v3 EXCEPT !.wrap_pending = TRUE]
            ELSE [v3 EXCEPT !.cursor_col = @ + 1]

write_char_NoDeferredWrap(v, ch) ==
    IF v.rows = 0 \/ v.cols = 0 THEN v
    ELSE IF char_display_width(ch) = 0 THEN write_zero_width(v, ch)
    ELSE write_wide([v EXCEPT !.wrap_pending = FALSE], ch)

write_char(v, ch) ==
    IF v.rows = 0 \/ v.cols = 0 THEN v
    ELSE IF char_display_width(ch) = 0 THEN write_zero_width(v, ch)
    ELSE write_wide(v, ch)

\* for _ in 0..n { self.write_char(ch) }
RECURSIVE write_chars(_, _, _)
write_chars(v, ch, n) ==
    IF n = 0 \/ v.panic THEN v
    ELSE write_chars(write_char(v, ch), ch, n - 1)

reset(v) ==
    [v EXCEPT !.lines = make_lines(v.cols, v.rows),
              !.cursor_row = 0, !.cursor_col = 0,
              !.saved_row = 0, !.saved_col = 0,
              !.style = DefaultStyle,
              !.scroll_top = 0, !.scroll_bottom = saturating_sub(v.rows, 1),
              !.wrap_pending = FALSE, !.cursor_visible = TRUE,
              !.saved_primary = None]

SavedScreen(v) ==
    [lines |-> v.lines, cursor_row |-> v.cursor_row, cursor_col |-> v.cursor_col,
     saved_row |-> v.saved_row, saved_col |-> v.saved_col, style |-> v.style,
     scroll_top |-> v.scroll_top, scroll_bottom |-> v.scroll_bottom,
     cursor_visible |-> v.cursor_visible]

enter_alt_screen(v) ==
    IF v.saved_primary # None THEN v
    ELSE [v EXCEPT !.saved_primary = Some(SavedScreen(v)),
                   !.lines = make_lines(v.cols, v.rows),
                   !.cursor_row = 0, !.cursor_col = 0,
                   !.saved_row = 0, !.saved_col = 0,
                   !.style = DefaultStyle,
                   !.scroll_top = 0, !.scroll_bottom = saturating_sub(v.rows, 1),
                   !.wrap_pending = FALSE]

leave_alt_screen_KeepsStyle(v) ==
    IF v.saved_primary = None THEN v
    ELSE LET saved == v.saved_primary[1] IN
         [v EXCEPT !.saved_primary = None, !.lines = saved.lines,
                   !.cursor_row = saved.cursor_row, !.cursor_col = saved.cursor_col,
                   !.saved_row = saved.saved_row, !.saved_col = saved.saved_col,
                   !.scroll_top = saved.scroll_top, !.scroll_bottom = saved.scroll_bottom,
                   !.cursor_visible = saved.cursor_visible, !.wrap_pending = FALSE]

leave_alt_screen(v) ==
    IF v.saved_primary = None THEN v
    ELSE LET saved == v.saved_primary[1]
             last_row == saturating_sub(v.rows, 1)
             last_col == saturating_sub(v.cols, 1)
         IN [v EXCEPT !.saved_primary = None,
                      !.lines = saved.lines,
                      !.cursor_row = Min(saved.cursor_row, last_row),
                      !.cursor_col = Min(saved.cursor_col, last_col),
                      !.saved_row = Min(saved.saved_row, last_row),
                      !.saved_col = Min(saved.saved_col, last_col),
                      !.style = saved.style,
                      !.scroll_top = Min(saved.scroll_top, last_row),
                      !.scroll_bottom = Min(saved.scroll_bottom, last_row),
                      !.cursor_visible = saved.cursor_visible,
                      !.wrap_pending = FALSE]

----------------------------------------------------------------------------
(* handle_csi and feed *)

\* the private h / l arm: the loop over the params from index i
RECURSIVE private_modes(_, _, _, _)
private_modes(v, params, set, i) ==
    IF i >= Len(params) \/ v.panic THEN v
    ELSE LET code == param_get(params, i)
             v1 == IF code = Some(25) THEN [v EXCEPT !.cursor_visible = set]
                   ELSE IF code = Some(1049)
                   THEN IF set THEN enter_alt_screen(v) ELSE leave_alt_screen(v)
                   ELSE v
         IN private_modes(v1, params, set, i + 1)

\* the 'r' arm
set_scroll_region(v, params) ==
    LET top == Max(param_or(params, 0, 1), 1)
        bottom == Max(param_or(params, 1, v.rows), 1)
        top0 == Min(saturating_sub(top, 1), saturating_sub(v.rows, 1))
        bottom0 == Min(saturating_sub(bottom, 1), saturating_sub(v.rows, 1))
    IN IF top0 < bottom0
       THEN [v EXCEPT !.scroll_top = top0, !.scroll_bottom = bottom0,
                      !.cursor_row = top0, !.cursor_col = 0,
                      !.wrap_pending = FALSE]
       ELSE v

handle_csi(v, raw, final_char) ==
    LET private == raw # <<>> /\ Head(raw) = "?"
        params == parse_params(IF private THEN Tail(raw) ELSE raw)
        n == Max(param_or(params, 0, 1), 1)
        last_row == saturating_sub(v.rows, 1)
        last_col == saturating_sub(v.cols, 1)
    IN CASE final_char = "A" ->
              [v EXCEPT !.wrap_pending = FALSE,
                        !.cursor_row = saturating_sub(v.cursor_row, n)]
         [] final_char = "B" ->
              [v EXCEPT !.wrap_pending = FALSE,
                        !.cursor_row = Min(v.cursor_row + n, last_row)]
         [] final_char = "C" ->
              [v EXCEPT !.wrap_pending = FALSE,
                        !.cursor_col = Min(v.cursor_col + n, last_col)]
         [] final_char = "D" ->
              [v EXCEPT !.wrap_pending = FALSE,
                        !.cursor_col = saturating_sub(v.cursor_col, n)]
         [] final_char = "G" ->
              [v EXCEPT !.wrap_pending = FALSE,
                        !.cursor_col = Min(saturating_sub(n, 1), last_col)]
         [] final_char = "d" ->
              [v EXCEPT !.wrap_pending = FALSE,
                        !.cursor_row = Min(saturating_sub(n, 1), last_row)]
         [] final_char = "H" \/ final_char = "f" ->
              [v EXCEPT !.wrap_pending = FALSE,
                        !.cursor_row = Min(saturating_sub(n, 1), last_row),
                        !.cursor_col = Min(saturating_sub(Max(param_or(params, 1, 1), 1), 1),
                                           last_col)]
         [] final_char = "J" ->
              erase_display([v EXCEPT !.wrap_pending = FALSE], param_or(params, 0, 0))
         [] final_char = "K" ->
              erase_line([v EXCEPT !.wrap_pending = FALSE], param_or(params, 0, 0))
         [] final_char = "m" -> apply_sgr(v, params)
         [] final_char = "r" -> set_scroll_region(v, params)
         [] final_char = "s" ->
              [v EXCEPT !.saved_row = v.cursor_row, !.saved_col = v.cursor_col,
                        !.wrap_pending = FALSE]
         [] final_char = "u" ->
              [v EXCEPT !.cursor_row = Min(v.saved_row, last_row),
                        !.cursor_col = Min(v.saved_col, last_col),
                        !.wrap_pending = FALSE]
         [] (final_char = "h" \/ final_char = "l") /\ private ->
              [private_modes(v, params, final_char = "h", 0) EXCEPT !.wrap_pending = FALSE]
         [] OTHER -> v

\* the scan for the final byte of a CSI from position j (1-based); 0 when
\* the input ends first
RECURSIVE csi_final(_, _)
csi_final(chars, j) ==
    IF j > Len(chars) THEN 0
    ELSE IF CodePoint(chars[j]) >= 64 /\ CodePoint(chars[j]) <= 126 THEN j
    ELSE csi_final(chars, j + 1)

\* the scan for the end of an OSC from position j (1-based): the position
\* after BEL or after ESC \, 0 when the input ends first
RECURSIVE osc_end(_, _)
osc_end(chars, j) ==
    IF j > Len(chars) THEN 0
    ELSE IF chars[j] = "BEL" THEN j + 1
    ELSE IF chars[j] = "ESC" /\ j + 1 <= Len(chars) /\ chars[j + 1] = "\\" THEN j + 2
    ELSE osc_end(chars, j + 1)

\* the two-char escapes
handle_esc(v, next) ==
    CASE next = "7" ->
              [v EXCEPT !.saved_row = v.cursor_row, !.saved_col = v.cursor_col,
                        !.wrap_pending = FALSE]
      [] next = "8" ->
              [v EXCEPT !.cursor_row = Min(v.saved_row, saturating_sub(v.rows, 1)),
                        !.cursor_col = Min(v.saved_col, saturating_sub(v.cols, 1)),
                        !.wrap_pending = FALSE]
      [] next = "D" -> line_feed([v EXCEPT !.wrap_pending = FALSE])
      [] next = "E" -> line_feed([v EXCEPT !.wrap_pending = FALSE, !.cursor_col = 0])
      [] next = "M" -> reverse_index([v EXCEPT !.wrap_pending = FALSE])
      [] next = "c" -> reset(v)
      [] OTHER -> v

handle_char_CrErases(v, ch) ==
    CASE ch = "CR" -> set_row([v EXCEPT !.cursor_col = 0, !.wrap_pending = FALSE],
                              v.cursor_row)
      [] ch = "LF" -> line_feed([v EXCEPT !.wrap_pending = FALSE])
      [] ch = "BS" -> [v EXCEPT !.wrap_pending = FALSE,
                                !.cursor_col = saturating_sub(v.cursor_col, 1)]
      [] ch = "TAB" -> write_chars(v, " ", saturating_sub(8, v.cursor_col % 8))
      [] OTHER -> IF CodePoint(ch) < 32 \/ CodePoint(ch) = 127 THEN v
                  ELSE write_char(v, ch)

\* a char outside an escape
handle_char(v, ch) ==
    CASE ch = "CR" -> [v EXCEPT !.cursor_col = 0, !.wrap_pending = FALSE]
      [] ch = "LF" -> line_feed([v EXCEPT !.wrap_pending = FALSE])
      [] ch = "BS" -> [v EXCEPT !.wrap_pending = FALSE,
                                !.cursor_col = saturating_sub(v.cursor_col, 1)]
      [] ch = "TAB" -> write_chars(v, " ", saturating_sub(8, v.cursor_col % 8))
      [] OTHER -> IF CodePoint(ch) < 32 \/ CodePoint(ch) = 127 THEN v
                  ELSE write_char(v, ch)

\* the while loop of feed over chars
RECURSIVE feed(_, _)
feed(v, chars) ==
    IF chars = <<>> \/ v.panic THEN v
    ELSE IF Head(chars) = "ESC"
    THEN IF Len(chars) < 2 THEN v
         ELSE IF chars[2] = "["
         THEN LET j == csi_final(chars, 3) IN
              IF j = 0 THEN v
              ELSE feed(handle_csi(v, SubSeq(chars, 3, j - 1), chars[j]),
                        SubSeq(chars, j + 1, Len(chars)))
         ELSE IF chars[2] = "]"
         THEN LET j == osc_end(chars, 3) IN
              IF j = 0 THEN v
              ELSE feed(v, SubSeq(chars, j, Len(chars)))
         ELSE feed(handle_esc(v, chars[2]), SubSeq(chars, 3, Len(chars)))
    ELSE feed(handle_char(v, Head(chars)), Tail(chars))

----------------------------------------------------------------------------
(* into_frame and build_styled_frame *)

MinCols == 20
MaxCols == 300
MinRows == 6
MaxRows == 200

\* format!("{}|{}|{}|{}|{}", ..) as the tuple of its five parts
style_key(style) ==
    <<IF style.fg = None THEN "" ELSE style.fg[1],
      IF style.bg = None THEN "" ELSE style.bg[1],
      IF style.bold THEN "1" ELSE "0",
      IF style.italic THEN "1" ELSE "0",
      IF style.underline THEN "1" ELSE "0">>

applied_style_NoFold(style) ==
    [style EXCEPT !.inverse = FALSE]

applied_style(style) ==
    IF ~style.inverse THEN style
    ELSE [fg |-> style.bg, bg |-> style.fg, bold |-> style.bold,
          italic |-> style.italic, underline |-> style.underline,
          inverse |-> FALSE]

\* the JSON object of a segment: a key is present only when it is inserted
segment_json(text, style) ==
    LET keys == {"text"}
                  \cup (IF style.fg # None THEN {"fg"} ELSE {})
                  \cup (IF style.bg # None THEN {"bg"} ELSE {})
                  \cup (IF style.bold THEN {"bold"} ELSE {})
                  \cup (IF style.italic THEN {"italic"} ELSE {})
                  \cup (IF style.underline THEN {"underline"} ELSE {})
    IN [k \in keys |->
           CASE k = "text" -> text
             [] k = "fg" -> style.fg[1]
             [] k = "bg" -> style.bg[1]
             [] OTHER -> TRUE]

\* while end > 0 && row[end - 1].text == " " { end -= 1 }
trim_end(row) ==
    LET kept == {i \in DOMAIN row : row[i].text # <<" ">>} IN
    IF kept = {} THEN 0 ELSE CHOOSE i \in kept : \A k \in kept : k <= i

\* for cell in row.iter().take(end), from the cell at index i (1-based)
RECURSIVE row_segments(_, _, _, _, _, _)
row_segments(row, i, end, segments, current_text, current_style) ==
    IF i > end THEN Append(segments, segment_json(current_text, current_style))
    ELSE LET style == applied_style(row[i].style) IN
         IF style_key(style) # style_key(current_style)
         THEN row_segments(row, i + 1, end,
                           Append(segments, segment_json(current_text, current_style)),
                           row[i].text, style)
         ELSE row_segments(row, i + 1, end, segments,
                           current_text \o row[i].text, current_style)

row_line_DefaultFirst(row) ==
    LET end == trim_end(row) IN
    IF end = 0 THEN [segments |-> <<[text |-> <<>>]>>]
    ELSE [segments |-> row_segments(row, 1, end, <<>>, <<>>, DefaultStyle)]

\* the line of one row
row_line(row) ==
    LET end == trim_end(row) IN
    IF end = 0 THEN [segments |-> <<[text |-> <<>>]>>]
    ELSE [segments |-> row_segments(row, 1, end, <<>>, <<>>, applied_style(row[1].style))]

into_frame(v) ==
    [cols |-> v.cols, rows |-> v.rows,
     lines |-> [r \in DOMAIN v.lines |-> row_line(v.lines[r])],
     cursorRow |-> Min(v.cursor_row, saturating_sub(v.rows, 1)),
     cursorCol |-> Min(v.cursor_col, saturating_sub(v.cols, 1)),
     cursorVisible |-> v.cursor_visible]

build_styled_frame(buffer, cols, rows) ==
    into_frame(feed(VtLite_new(clamp(cols, MinCols, MaxCols),
                               clamp(rows, MinRows, MaxRows)), buffer))

----------------------------------------------------------------------------
(* build_styled_frame as a state machine: the loop of feed advances over  *)
(* the buffer one piece at a time, then into_frame emits the frame.       *)
(* vt is the VtLite; vio holds the requested size, the number of pieces   *)
(* still to come and the emitted frame; vh is history: entry is the       *)
(* VtLite as it was when CSI ?1049h left the primary screen, clear        *)
(* follows an input CSI 2J, CSI H, text.                                  *)

MaxPieces == 4
MaxClampedPieces == 1

\* ESC [ body
csi(body) == <<"ESC", "[">> \o body

EnterAlt == csi(<<"?", "1", "0", "4", "9", "h">>)
LeaveAlt == csi(<<"?", "1", "0", "4", "9", "l">>)
FullReset == <<"ESC", "c">>
EraseAll == csi(<<"2", "J">>)
Home == csi(<<"H">>)
CarriageReturn == <<"CR">>
SgrRed == csi(<<"3", "1", "m">>)
SgrReset == csi(<<"0", "m">>)
SgrInverse == csi(<<"7", "m">>)

\* "a" as many times as the narrowest grid has columns but one
Run == [i \in 1..(MinCols - 1) |-> "a"]

\* pieces of text: each char is put by write_char in a cell of its own
Printable == {<<"a">>, <<" ">>, Run}

\* "hello\rbye"
HelloBye == <<"h", "e", "l", "l", "o", "CR", "b", "y", "e">>

\* the pieces of a buffer: each is a whole char or a whole escape sequence
Pieces ==
    Printable \cup
    {<<"CM">>, CarriageReturn, <<"LF">>, HelloBye,
     FullReset, <<"ESC", "M">>, <<"ESC", "7">>,
     EnterAlt, LeaveAlt, EraseAll, Home, SgrRed, SgrReset, SgrInverse,
     csi(<<"2", ";", "3", "r">>), csi(<<"?", "2", "5", "l">>),
     <<"ESC", "]", "0", ";", "a", "BEL">>}

\* the ends of a buffer that stops inside an escape sequence
Tails == {<<"ESC">>, csi(<<"3">>), <<"ESC", "]", "a">>}

\* the requested (cols, rows) with the number of pieces of the buffer
Requests ==
    {<<20, 6, MaxPieces>>}
    \cup {<<c, r, MaxClampedPieces>> :
            <<c, r>> \in {<<0, 0>>, <<19, 7>>, <<21, 5>>, <<301, 6>>, <<20, 201>>}}

\* history of the alternate screen: "alt" from a CSI ?1049h that left the
\* primary screen (at is the VtLite before it, wrote tells that a char was
\* written since) until a full reset or another CSI ?1049h; "back" right
\* after the CSI ?1049l that ends it
NoAlt == [phase |-> "primary", at |-> <<>>, wrote |-> FALSE]

alt_history(h, v, piece) ==
    IF piece = EnterAlt
    THEN IF v.saved_primary = None THEN [phase |-> "alt", at |-> v, wrote |-> FALSE]
         ELSE [NoAlt EXCEPT !.phase = "void"]
    ELSE IF piece = LeaveAlt
    THEN IF h.phase = "alt" THEN [h EXCEPT !.phase = "back"] ELSE NoAlt
    ELSE IF piece = FullReset \/ h.phase = "back" THEN NoAlt
    ELSE IF piece \in Printable /\ h.phase = "alt" THEN [h EXCEPT !.wrote = TRUE]
    ELSE h

\* history of CSI 2J, CSI H, text shorter than cols: "home" after the CSI H
\* and while the text that follows is shorter than cols; dirty tells that
\* the grid held something when CSI 2J was processed
NoClear == [phase |-> "none", text |-> <<>>, dirty |-> FALSE]

clear_history(h, v, piece) ==
    IF piece = EraseAll
    THEN [phase |-> "erased", text |-> <<>>,
          dirty |-> \E r \in DOMAIN v.lines : \E c \in DOMAIN v.lines[r] :
                       v.lines[r][c] # blank_cell]
    ELSE IF piece = Home /\ h.phase = "erased" THEN [h EXCEPT !.phase = "home"]
    ELSE IF piece \in Printable /\ h.phase = "home" /\ Len(h.text) + Len(piece) < v.cols
    THEN [h EXCEPT !.text = @ \o piece]
    ELSE NoClear

InitVt ==
    /\ lk = LkInit
    /\ sessions = << >> /\ windows = << >> /\ poisoned = {} /\ runs = << >>
    /\ pc = "idle" /\ req = NoReq /\ reply = NoReply
    /\ running = TRUE /\ socketFile = TRUE /\ nreq = 0 /\ stopped = {}
    /\ vh = [entry |-> NoAlt, clear |-> NoClear]
    /\ \E q \in Requests :
          /\ vt = VtLite_new(clamp(q[1], MinCols, MaxCols), clamp(q[2], MinRows, MaxRows))
          /\ vio = [pc |-> "feed", cols |-> q[1], rows |-> q[2], left |-> q[3],
                    frame |-> <<>>]

\* the loop of feed over the next piece
VtFeed(piece) ==
    /\ vio.pc = "feed" /\ vio.left > 0
    /\ vt' = feed(vt, piece)
    /\ vio' = [vio EXCEPT !.left = @ - 1]
    /\ vh' = [entry |-> alt_history(vh.entry, vt, piece),
              clear |-> clear_history(vh.clear, vt, piece)]
    /\ UNCHANGED <<dataVars, lk>>

\* the loop of feed reaches the end of the buffer inside an escape sequence
VtFeedTail(piece) ==
    /\ vio.pc = "feed" /\ vio.left > 0
    /\ vt' = feed(vt, piece)
    /\ vio' = [vio EXCEPT !.left = 0]
    /\ UNCHANGED <<vh, dataVars, lk>>

VtIntoFrame ==
    /\ vio.pc = "feed"
    /\ vio' = [vio EXCEPT !.pc = "frame", !.frame = into_frame(vt)]
    /\ UNCHANGED <<vt, vh, dataVars, lk>>

NextVt ==
    \/ \E piece \in Pieces : VtFeed(piece)
    \/ \E piece \in Tails : VtFeedTail(piece)
    \/ VtIntoFrame

SpecVt == InitVt /\ [][NextVt]_vars

----------------------------------------------------------------------------
(* build_styled_frame over buffers made of the CSI sequences of handle_csi *)

\* "a" as many times as the narrowest grid has columns
FullRow == [i \in 1..MinCols |-> "a"]

RegionRejected == csi(<<"3", ";", "2", "r">>)

\* one sequence for each arm of the match of handle_csi
CsiTable ==
    {csi(<<"A">>), csi(<<"B">>), csi(<<"C">>), csi(<<"D">>), csi(<<"G">>),
     csi(<<"d">>), Home, csi(<<"f">>), csi(<<"J">>), csi(<<"K">>),
     SgrRed, csi(<<"2", ";", "3", "r">>), RegionRejected,
     csi(<<"s">>), csi(<<"u">>),
     csi(<<"?", "2", "5", "h">>), csi(<<"?", "2", "5", "l">>)}

CsiPieces == {<<"a">>, FullRow} \cup CsiTable

NextCsi ==
    \/ \E piece \in CsiPieces : VtFeed(piece)
    \/ VtIntoFrame

SpecCsi == InitVt /\ [][NextCsi]_vars

----------------------------------------------------------------------------
(* build_styled_frame over buffers of text and SGR sequences *)

\* SGR 38 / 48 not followed by a well-formed 2;r;g;b or 5;index
SgrMalformed ==
    {csi(<<"3", "8", "m">>),                                   \* no mode
     csi(<<"3", "8", ";", "1", "m">>),                         \* mode 1
     csi(<<"4", "8", ";", "7", "m">>),                         \* mode 7
     csi(<<"3", "8", ";", "2", ";", "1", ";", "2", "m">>),     \* no blue
     csi(<<"4", "8", ";", "5", "m">>),                         \* no index
     csi(<<"3", "8", ";", "5", ";", "2", "5", "6", "m">>)}     \* index 256

SgrBgRed == csi(<<"4", "1", "m">>)

SgrPieces ==
    {<<"a">>, <<" ">>, SgrBgRed, SgrReset,
     csi(<<"3", "8", ";", "5", ";", "1", "m">>),
     csi(<<"4", "8", ";", "2", ";", "1", ";", "2", ";", "3", "m">>)}
        \cup SgrMalformed

NextSgr ==
    \/ \E piece \in SgrPieces : VtFeed(piece)
    \/ VtIntoFrame

SpecSgr == InitVt /\ [][NextSgr]_vars

----------------------------------------------------------------------------
(* build_styled_frame over buffers of text, control chars and zero-width   *)
(* chars, with a scroll region and the cursor moved to the last cell       *)

\* CSI 2;3r: the scroll region is rows 1..2
RegionSmall == csi(<<"2", ";", "3", "r">>)

\* CSI 6;20H: the last cell of the narrowest grid
LastCell == csi(<<"6", ";", "2", "0", "H">>)

Tab == <<"TAB">>
LineFeed == <<"LF">>
Index == <<"ESC", "D">>

\* U+0301, U+200D, U+FE0F
\* "a" + ESC [ 3 ; 1 H + "b": a char where the cursor is, then "b" at the
\* start of the third row, the bottom of RegionSmall
MarkedBottom == <<"a">> \o csi(<<"3", ";", "1", "H">>) \o <<"b">>
ZeroWidth == {<<"CM">>, <<"ZWJ">>, <<"VS">>}

WrapPieces ==
    {<<"a">>, Run, FullRow, Tab, LineFeed, Index, CarriageReturn,
     RegionSmall, LastCell, MarkedBottom} \cup ZeroWidth

NextWrap ==
    \/ \E piece \in WrapPieces : VtFeed(piece)
    \/ VtIntoFrame

SpecWrap == InitVt /\ [][NextWrap]_vars

----------------------------------------------------------------------------
(* Properties *)

Keys == DOMAIN windows

StartsWith(s, prefix) ==
    Len(s) >= Len(prefix) /\ SubSeq(s, 1, Len(prefix)) = prefix

\* C1: the raw buffer of every window is at most max_buffer_bytes long in
\* every reachable state, after reader appends and after the marker append.
C1_BufferWithinCap ==
    \A k \in Keys : Len(windows[k].buffer) <= max_buffer_bytes

\* C2 as stated: a window is running exactly when its record holds the
\* handle of a child process that is still alive.
C2_RunningIffLiveChild ==
    \A k \in Keys :
        (windows[k].status = "running")
            <=> (windows[k].child # None /\ runs[windows[k].child[1]].alive)

\* C2 amended: a running window holds the child, master and writer handles
\* of its run (the process itself may already be gone, and a stored handle
\* does not make the window running).
C2_RunningHasChild ==
    \A k \in Keys :
        windows[k].status = "running"
            => /\ windows[k].child # None
               /\ windows[k].master = windows[k].child
               /\ windows[k].writer = windows[k].child

\* a running window whose stored child has exited unobserved
C2_Witness ==
    \E k \in Keys :
        /\ windows[k].status = "running"
        /\ windows[k].child # None
        /\ ~runs[windows[k].child[1]].alive

\* C3: a running window has startedAt set and exitedAt unset.
C3_RunningTimestamps ==
    \A k \in Keys :
        windows[k].status = "running"
            => windows[k].started_at # None /\ windows[k].exited_at = None

\* C4 as stated: once a window's pid is set, no step changes it.
C4_PidNeverChanges ==
    [][\A k \in Keys : windows[k].pid # None => windows'[k].pid = windows[k].pid]_vars

\* C4 amended: a window's pid changes only in the locked section of
\* start_window that makes the window running, which sets it to the pid of
\* the child just spawned; no other step changes it.
C4_PidSetOnlyAtRunning ==
    [][\A k \in Keys :
          windows'[k].pid # windows[k].pid
              => /\ pc = "sw_store" /\ req.key = k
                 /\ windows'[k].status = "running"
                 /\ windows'[k].pid = Some(runs[req.run].pid)]_vars

\* a stopped window keeps the pid of its last child
C4_Witness ==
    \E k \in stopped : windows[k].pid # None /\ windows[k].child = None

\* a step of start_window's first part for key k
StartStep(k) ==
    /\ pc = "idle"
    /\ \/ pc' = "sw_store" /\ req'.key = k
       \/ pc' = "respond" /\ reply'.method = "start_window" /\ reply'.key = k

\* C5: start_window on a window with a stored child and status running
\* returns success, changes nothing in the record and spawns nothing.
C5_StartRunningIsNoop ==
    [][\A k \in Keys :
          StartStep(k) /\ windows[k].child # None /\ windows[k].status = "running"
              => /\ pc' = "respond" /\ reply'.ok
                 /\ windows' = windows
                 /\ runs' = runs]_vars

\* C6: every step that makes a window exited or error sets exitedAt, and a
\* window that is exited or error has exitedAt set.
C6_ExitedAtSet ==
    /\ [](\A k \in Keys :
             windows[k].status \in {"exited", "error"} => windows[k].exited_at # None)
    /\ [][\A k \in Keys :
             /\ windows'[k].status \in {"exited", "error"}
             /\ windows'[k].status # windows[k].status
             => windows'[k].exited_at # None]_vars

\* a window made exited by its reader: the child handle is still stored
C6_Witness ==
    \E k \in Keys :
        /\ windows[k].status = "exited"
        /\ windows[k].child # None
        /\ windows[k].exited_at # None

\* the snapshots list_windows returned for the record w
Reported(list, w) ==
    {i \in DOMAIN list : /\ list[i].sessionName = w.session_name
                         /\ list[i].windowName = w.window_name}

\* C7: once stop_window has returned stopped:true for a running window, and
\* until the next start_window of that window, list_windows reports it as
\* exited with signal SIGTERM and exitedAt set, and stop_window on it
\* returns stopped:false.
C7_StoppedStaysExited ==
    [][\A k \in stopped :
          /\ (/\ pc = "idle" /\ reply'.method = "list_windows"
              /\ reply'.key \in {None, Some(windows[k].session_name)})
             => /\ Reported(reply'.windows, windows[k]) # {}
                /\ \A i \in Reported(reply'.windows, windows[k]) :
                      /\ reply'.windows[i].status = "exited"
                      /\ reply'.windows[i].signal = Some("SIGTERM")
                      /\ reply'.windows[i].exitedAt # None
          /\ (pc = "idle" /\ reply'.method = "stop_window" /\ reply'.key = k)
             => reply'.ok /\ ~reply'.stopped]_vars

\* C8: when start_window has stored a spawned child, the raw buffer begins
\* with the marker line of that child.
C8_MarkerFirst ==
    [][pc = "sw_store" /\ pc' = "respond" /\ reply'.ok
          => StartsWith(windows'[req.key].buffer, Marker(windows'[req.key].pid))]_vars

\* C10: list_windows returns exactly one snapshot for each registered window
\* that passes the session filter, and nothing else.
C10_ListExact ==
    [][pc = "idle" /\ reply'.method = "list_windows"
          => /\ \A k \in Keys :
                   (reply'.key \in {None, Some(windows[k].session_name)})
                       => Cardinality({i \in DOMAIN reply'.windows :
                                          reply'.windows[i] = Snapshot(windows[k])}) = 1
             /\ \A i \in DOMAIN reply'.windows :
                   \E k \in Keys :
                       /\ reply'.key \in {None, Some(windows[k].session_name)}
                       /\ reply'.windows[i] = Snapshot(windows[k])]_vars

\* the child stored in window k has every variable of session s with the
\* session's value
ChildHasSessionEnv(ws, rs, s, k) ==
    s \in DOMAIN sessions
        => /\ ws[k].child # None
           /\ \A e \in DOMAIN sessions[s] :
                 /\ e \in DOMAIN rs[ws[k].child[1]].env
                 /\ rs[ws[k].child[1]].env[e] = sessions[s][e]

\* C11 as stated: whenever start_window for a window of session S returns
\* success, the child in that window has every variable set for S by
\* set_session_env, with the value set last.
C11_StartSeesEnv ==
    [][/\ pc \in {"idle", "sw_store"} /\ pc' = "respond"
       /\ reply'.method = "start_window" /\ reply'.ok
       /\ windows'[reply'.key].session_name = reply'.session
       => ChildHasSessionEnv(windows', runs', reply'.session, reply'.key)]_vars

\* C11 amended: whenever start_window spawns a child for a window of
\* session S and returns success, that child is the one stored in the window
\* and has every variable set for S with the value set last, over the
\* daemon's own settings; the environment of a child never changes later.
C11_SpawnSeesEnv ==
    /\ [][/\ pc = "sw_store" /\ pc' = "respond" /\ reply'.ok
           => /\ windows'[reply'.key].child = Some(req.run)
              /\ ChildHasSessionEnv(windows', runs', reply'.session, reply'.key)]_vars
    /\ [][\A r \in DOMAIN runs : runs'[r].env = runs[r].env]_vars

\* a window runs a child that was given the TERM set for its session
C11_Witness ==
    /\ pc = "respond" /\ reply.method = "start_window" /\ reply.ok /\ ~reply.noop
    /\ reply.session \in DOMAIN sessions
    /\ "TERM" \in DOMAIN sessions[reply.session]
    /\ windows[reply.key].child # None
    /\ runs[windows[reply.key].child[1]].env["TERM"] \in EnvVals

\* C12: get_or_create_session leaves every existing session's env map and
\* every existing window record unchanged; it adds the session entry only
\* when it is absent (with an empty env) and at most one window record, idle
\* and of that session, only under a key that is absent; so a call that finds
\* its session and its window changes nothing, and a second identical call
\* gives the state of the first.
C12_GetOrCreateIdempotent ==
    [][pc = "idle" /\ reply'.method = "get_or_create_session"
       => /\ reply'.ok
          /\ DOMAIN sessions' = DOMAIN sessions \cup {reply'.key}
          /\ \A sn \in DOMAIN sessions : sessions'[sn] = sessions[sn]
          /\ reply'.key \notin DOMAIN sessions => sessions'[reply'.key] = << >>
          /\ DOMAIN windows \subseteq DOMAIN windows'
          /\ \A k \in DOMAIN windows : windows'[k] = windows[k]
          /\ Cardinality(DOMAIN windows' \ DOMAIN windows) <= 1
          /\ \A k \in DOMAIN windows' \ DOMAIN windows :
                /\ windows'[k].session_name = reply'.key
                /\ k = window_key(reply'.key, windows'[k].window_name)
                /\ windows'[k] = IdleWindow(reply'.key, windows'[k].window_name)
          /\ runs' = runs /\ poisoned' = poisoned]_vars

\* get_or_create_session answered for a session that has an env variable set
\* and a running window
C12_Witness ==
    /\ pc = "respond" /\ reply.method = "get_or_create_session"
    /\ reply.key \in DOMAIN sessions
    /\ sessions[reply.key] # << >>
    /\ \E k \in Keys : /\ windows[k].session_name = reply.key
                       /\ windows[k].status = "running"
                       /\ windows[k].buffer # <<>>

\* C13: dispose kills the child of every registered window and leaves every
\* window without child, master and writer, exited with exitedAt set; it
\* replies ok, and once the reply is written no further request is handled
\* and the socket file is removed.
C13_DisposeAll ==
    /\ [][pc = "idle" /\ reply'.method = "dispose"
           => /\ reply'.ok
              /\ \A k \in Keys :
                    /\ windows[k].child # None => ~runs'[windows[k].child[1]].alive
                    /\ windows'[k].child = None
                    /\ windows'[k].master = None
                    /\ windows'[k].writer = None
                    /\ windows'[k].status = "exited"
                    /\ windows'[k].exited_at # None]_vars
    /\ [][(pc = "ds_exit" \/ pc = "done") => (nreq' = nreq /\ pc' # "idle")]_vars
    /\ [](pc = "done" => ~socketFile /\ ~running)

\* a step of type_keys or send_enter for key k
KeysStep(k) ==
    /\ pc = "idle"
    /\ reply'.method = "type_keys" \/ reply'.method = "send_enter"
    /\ reply'.key = k

\* C21: type_keys and send_enter on an existing window whose record has no
\* writer return the error "window writer unavailable", write nothing and
\* leave the window record unchanged.
C21_NoWriterError ==
    [][\A k \in Keys :
          KeysStep(k) /\ windows[k].writer = None
              => /\ ~reply'.ok
                 /\ reply'.error = "window writer unavailable"
                 /\ runs' = runs
                 /\ windows' = windows]_vars

\* the reader threads that hold the record of key k and have not ended
LiveReaders(k) == {r \in Runs : runs[r].key = k /\ runs[r].rd = "read"}

\* a start_window later than the one of run r has begun a run of r's window:
\* it is between its two locked sections or its child is the stored one
LaterRun(r) ==
    \E r2 \in Runs :
        /\ r2 > r
        /\ runs[r2].key = runs[r].key
        /\ \/ pc = "sw_store" /\ req.run = r2
           \/ windows[runs[r].key].child = Some(r2)

\* C22: a reader thread affects only the run it was started for: when the
\* reader of a child that stop_window killed sees EOF or a read error after a
\* new start_window has begun a later run of the window, the status and
\* exitedAt of the window do not change.
C22_ReaderOwnRunOnly ==
    [][\A r \in Runs :
          /\ runs[r].rd = "read" /\ runs'[r].rd = "done"
          /\ ~runs[r].alive
          /\ LaterRun(r)
          => /\ windows'[runs[r].key].status = windows[runs[r].key].status
             /\ windows'[runs[r].key].exited_at = windows[runs[r].key].exited_at]_vars

\* C23: at any time at most one live reader thread holds a given window
\* record and appends to its buffer, also after stop_window followed by
\* start_window.
C23_OneReaderPerWindow ==
    \A k \in Keys : Cardinality(LiveReaders(k)) <= 1

\* the last n bytes of s
LastBytes(s, n) == IF Len(s) > n THEN SubSeq(s, Len(s) - n + 1, Len(s)) ELSE s

\* C24: when a reader's append takes the buffer over the cap, the buffer
\* becomes the last max_buffer_bytes bytes of the old buffer followed by the
\* decoded chunk, whatever the bytes around the cut, and the reader thread
\* and the window lock stay usable.
C24_CutAtCap ==
    [][\A r \in Runs :
          /\ runs'[r].nreads = runs[r].nreads + 1
          /\ runs[r].key \notin poisoned
          => \E chunk \in Chunks :
                LET pushed == windows[runs[r].key].buffer \o from_utf8_lossy(chunk) IN
                /\ windows'[runs[r].key].buffer = LastBytes(pushed, max_buffer_bytes)
                /\ Len(pushed) > max_buffer_bytes
                      => Len(windows'[runs[r].key].buffer) = max_buffer_bytes
                /\ runs'[r].rd = "read"
                /\ poisoned' = poisoned]_vars

\* the children spawned for the window of key k that have not exited
LiveChildren(k) == {r \in Runs : runs[r].key = k /\ runs[r].alive}

\* C25: start_window never replaces the stored child handle of a process
\* that is still alive, and a window has at most one live child.
C25_OneLiveChild ==
    /\ [][\A k \in Keys :
             /\ windows[k].child # None
             /\ windows'[k].child # windows[k].child
             /\ pc = "sw_store"
             => ~runs[windows[k].child[1]].alive]_vars
    /\ [](\A k \in Keys : Cardinality(LiveChildren(k)) <= 1)

\* C26: a start_window that fails in openpty, spawn_command,
\* try_clone_reader or take_writer returns that error and leaves the status
\* starting, and no step of a reader thread changes the status of a window
\* left starting by a failed start_window.
C26_FailedStartStaysStarting ==
    /\ [][pc = "idle" /\ reply'.method = "start_window" /\ reply'.error \in SpawnErrors
           => ~reply'.ok /\ windows'[reply'.key].status = "starting"]_vars
    /\ [][\A k \in Keys :
             /\ windows[k].status = "starting"
             /\ ~(pc = "sw_store" /\ req.key = k)
             /\ pc' = pc
             => windows'[k].status = "starting"]_vars

\* the child of run r is gone and its reader thread is still in its loop
Orphaned(r) == r \in Runs /\ ~runs[r].alive /\ runs[r].rd = "read"

\* the reader thread of run r has ended, or the daemon process has
Ended(r) == r \in Runs /\ (runs[r].rd # "read" \/ ~ProcessUp)

\* C27: once the child of a run is gone (killed by stop_window, which also
\* drops the PTY handles of the record, or otherwise), the run's reader
\* thread eventually ends, under fair scheduling of the reader threads: no
\* reader thread stays in its loop forever.
C27_ReaderTerminates ==
    \A r \in 1..MaxRuns : Orphaned(r) ~> Ended(r)

\* stop_window stopped a running window with a single run, and the reader
\* thread of that run then saw a read error and ended
C27_Witness ==
    \E r \in Runs :
        /\ runs[r].key \in stopped
        /\ Cardinality({r2 \in Runs : runs[r2].key = runs[r].key}) = 1
        /\ ~runs[r].alive
        /\ runs[r].rd = "done"
        /\ windows[runs[r].key].status = "error"

\* a step of start_window's first part for the session sn and the key k
StartStepOf(sn, k) ==
    /\ pc = "idle"
    /\ \/ pc' = "sw_store" /\ req'.session = sn /\ req'.key = k
       \/ /\ pc' = "respond" /\ reply'.method = "start_window"
          /\ reply'.session = sn /\ reply'.key = k

\* C28: start_window for a window of a session name that has no session
\* entry creates the entry with an empty env map; after start_window the
\* session is in the session map.
C28_StartCreatesSession ==
    [][\A pr \in Pairs :
          StartStepOf(pr[1], window_key(pr[1], pr[2]))
              => /\ pr[1] \in DOMAIN sessions'
                 /\ pr[1] \notin DOMAIN sessions => sessions'[pr[1]] = << >>]_vars

\* C29: distinct (sessionName, windowName) pairs address distinct records,
\* also with ':' in a name: the record start_window finds or creates for a
\* pair has that pair's session and window names, and start_window changes
\* no record with other names.
C29_PairsAddressOwnRecord ==
    [][\A pr \in Pairs :
          StartStepOf(pr[1], window_key(pr[1], pr[2]))
              => /\ windows'[window_key(pr[1], pr[2])].session_name = pr[1]
                 /\ windows'[window_key(pr[1], pr[2])].window_name = pr[2]
                 /\ \A k \in Keys :
                       windows'[k] # windows[k]
                           => /\ windows[k].session_name = pr[1]
                              /\ windows[k].window_name = pr[2]]_vars

\* C30: no step removes a window record or a session entry, and
\* window_exists answers whether the key is registered; so once it has
\* answered true for a window it answers true until the daemon terminates.
C30_NothingRemoved ==
    /\ [][/\ DOMAIN windows \subseteq DOMAIN windows'
           /\ DOMAIN sessions \subseteq DOMAIN sessions']_vars
    /\ [][pc = "idle" /\ reply'.method = "window_exists"
           => /\ reply'.ok
              /\ reply'.exists = (reply'.key \in DOMAIN windows')]_vars

\* window_exists answers true for a window that stop_window has stopped
C30_Witness ==
    /\ pc = "respond" /\ reply.method = "window_exists" /\ reply.exists
    /\ reply.key \in stopped
    /\ windows[reply.key].child = None

\* the lock a thread is about to request, if any
MainWants == IF lk.script # <<>> /\ Head(lk.script).op = "acq"
             THEN {Head(lk.script).lock} ELSE {}
ReaderWants(r) == IF lk.readers[r].st = "read" THEN {lk.readers[r].key} ELSE {}

Wants(t) == IF t = MainThread THEN MainWants ELSE ReaderWants(t)
Threads == {MainThread} \cup DOMAIN lk.readers
Blocked(t) == \E l \in Wants(t) : l \in DOMAIN lk.holder

\* C9: a thread that requests the registry lock holds no window lock, and
\* no thread waits for a lock whose holder is itself waiting (or is the
\* thread itself), so the threads never deadlock.
C9_LockOrder ==
    /\ \A t \in Threads :
          StateLock \in Wants(t) => HeldBy(t) = {}
    /\ \A t \in Threads : \A l \in Wants(t) :
          l \in DOMAIN lk.holder
              => lk.holder[l] # t /\ ~Blocked(lk.holder[l])

\* list_windows holds the registry lock and waits for a window lock that a
\* reader thread holds
C9_Witness ==
    /\ StateLock \in HeldBy(MainThread)
    /\ \E l \in MainWants : l \in DOMAIN lk.holder /\ lk.holder[l] > MainThread

----------------------------------------------------------------------------
(* Properties of build_styled_frame *)

\* a call of build_styled_frame is in progress or has returned
VtCalled == vio.pc # "none"

\* the frame has been emitted
VtEmitted == vio.pc = "frame"

\* C14: whatever the input and the requested (cols, rows), the frame reports
\* cols clamped to [20,300] and rows clamped to [6,200] and has exactly that
\* many lines, and after every processed piece of input the grid has exactly
\* rows rows of exactly cols cells.
C14_GridShape ==
    VtCalled =>
        /\ vt.cols = (IF vio.cols < 20 THEN 20 ELSE IF vio.cols > 300 THEN 300 ELSE vio.cols)
        /\ vt.rows = (IF vio.rows < 6 THEN 6 ELSE IF vio.rows > 200 THEN 200 ELSE vio.rows)
        /\ Len(vt.lines) = vt.rows
        /\ \A r \in DOMAIN vt.lines : Len(vt.lines[r]) = vt.cols
        /\ VtEmitted =>
              /\ vio.frame.cols = vt.cols
              /\ vio.frame.rows = vt.rows
              /\ Len(vio.frame.lines) = vt.rows

\* a frame for a request of 301 columns, emitted after a character was written
C14_Witness ==
    /\ VtEmitted /\ vio.cols = 301 /\ vio.frame.cols = 300
    /\ Len(vio.frame.lines) = 6
    /\ vt.lines[1][1].text = <<"a">>

\* C15: after every processed piece of input the cursor is inside the grid
\* (cursor_row < rows, cursor_col < cols) and no cell access was out of
\* range; the emitted frame has cursorRow < rows and cursorCol < cols.
C15_CursorInRange ==
    VtCalled =>
        /\ ~vt.panic
        /\ vt.cursor_row >= 0 /\ vt.cursor_row < vt.rows
        /\ vt.cursor_col >= 0 /\ vt.cursor_col < vt.cols
        /\ VtEmitted =>
              /\ vio.frame.cursorRow = vt.cursor_row
              /\ vio.frame.cursorCol = vt.cursor_col
              /\ vio.frame.cursorRow < vio.frame.rows
              /\ vio.frame.cursorCol < vio.frame.cols

\* a frame emitted after a character was written in the last column
C15_Witness ==
    /\ VtEmitted /\ vt.wrap_pending
    /\ vt.cursor_col = vt.cols - 1
    /\ vt.lines[vt.cursor_row + 1][vt.cols].text = <<"a">>
    /\ vio.frame.cursorCol = vt.cols - 1

\* C16: in every emitted frame a row that is blank after trimming (every cell
\* a single space) is the single placeholder segment with empty text, and
\* every other row is a non-empty list of segments each with non-empty text.
C16_SegmentsNonEmpty ==
    VtEmitted =>
        \A r \in DOMAIN vio.frame.lines :
           LET segments == vio.frame.lines[r].segments IN
           IF \A c \in DOMAIN vt.lines[r] : vt.lines[r][c].text = <<" ">>
           THEN segments = <<[text |-> <<>>]>>
           ELSE /\ segments # <<>>
                /\ \A i \in DOMAIN segments : segments[i].text # <<>>

\* a frame with a row of two segments, the first cell styled, and a blank row
C16_Witness ==
    /\ VtEmitted
    /\ Len(vio.frame.lines[1].segments) = 2
    /\ "fg" \in DOMAIN vio.frame.lines[1].segments[1]
    /\ vio.frame.lines[2].segments = <<[text |-> <<>>]>>

\* C17: when CSI ?1049h leaves the primary screen and the input that follows
\* has no full reset and no further CSI ?1049h, the CSI ?1049l that ends it
\* restores grid, cursor, saved cursor, style, scroll region and cursor
\* visibility to their values at entry, and the frame is the frame of the
\* screen at entry: nothing written in the alternate screen appears.
C17_AltRoundTrip ==
    vh.entry.phase = "back" =>
        LET at == vh.entry.at IN
        /\ vt.saved_primary = None
        /\ vt.lines = at.lines
        /\ vt.cursor_row = at.cursor_row /\ vt.cursor_col = at.cursor_col
        /\ vt.saved_row = at.saved_row /\ vt.saved_col = at.saved_col
        /\ vt.style = at.style
        /\ vt.scroll_top = at.scroll_top /\ vt.scroll_bottom = at.scroll_bottom
        /\ vt.cursor_visible = at.cursor_visible
        /\ into_frame(vt) = into_frame(at)

\* back from an alternate screen in which a char was written, to a primary
\* screen that holds a char
C17_Witness ==
    /\ vh.entry.phase = "back" /\ vh.entry.wrote
    /\ vt.lines[1][1].text = <<"a">>
    /\ VtEmitted

\* C18: after CSI 2J, CSI H and a text T of printable chars shorter than
\* cols, whatever the screen held before, row 0 starts with T, every other
\* cell of the grid is blank and the cursor is on row 0 after T.
C18_ClearHomeText ==
    vh.clear.phase = "home" =>
        LET T == vh.clear.text IN
        /\ \A r \in DOMAIN vt.lines : \A c \in DOMAIN vt.lines[r] :
              IF r = 1 /\ c <= Len(T)
              THEN vt.lines[r][c].text = <<T[c]>>
              ELSE vt.lines[r][c] = blank_cell
        /\ vt.cursor_row = 0 /\ vt.cursor_col = Len(T)

\* a text written after the clear of a grid that held something
C18_Witness ==
    /\ vh.clear.phase = "home" /\ vh.clear.dirty
    /\ vh.clear.text = <<"a">>
    /\ vt.lines[1][1].text = <<"a">>

\* C19: a carriage return moves the cursor to column 0 of the same row and
\* changes no cell; a char written next replaces the cell in column 0 of that
\* row only, so the chars beyond it remain; "hello\rbye" on a fresh screen
\* gives row 0 "byelo" with the cursor at row 0, column 3.
C19_CarriageReturn ==
    /\ [][VtFeed(CarriageReturn)
           => /\ vt'.cursor_col = 0 /\ vt'.cursor_row = vt.cursor_row
              /\ vt'.lines = vt.lines
              /\ ~vt'.wrap_pending]_vars
    /\ [][\A ch \in {"a", " "} :
            vt.cursor_col = 0 /\ ~vt.wrap_pending /\ VtFeed(<<ch>>)
            => /\ vt'.cursor_row = vt.cursor_row /\ vt'.cursor_col = 1
               /\ \A r \in DOMAIN vt.lines : \A c \in DOMAIN vt.lines[r] :
                     IF r = vt.cursor_row + 1 /\ c = 1
                     THEN vt'.lines[r][c] = [text |-> <<ch>>, style |-> vt.style]
                     ELSE vt'.lines[r][c] = vt.lines[r][c]]_vars
    /\ [][vt = VtLite_new(vt.cols, vt.rows) /\ VtFeed(HelloBye)
           => /\ into_frame(vt').lines[1].segments
                    = <<[text |-> <<"b", "y", "e", "l", "o">>]>>
              /\ into_frame(vt').cursorRow = 0
              /\ into_frame(vt').cursorCol = 3]_vars

\* the frame of "hello\rbye" and nothing else
C19_Witness ==
    /\ VtEmitted /\ vio.left = MaxPieces - 1
    /\ vio.frame.lines[1].segments = <<[text |-> <<"b", "y", "e", "l", "o">>]>>
    /\ vio.frame.cursorCol = 3

\* the column of the cell that the last written char went to
WrittenCol(v) == IF v.wrap_pending THEN v.cursor_col ELSE v.cursor_col - 1

\* the cell (row, col) is left of the trimmed end of its row
Shown(v, row, col) ==
    \E c \in DOMAIN v.lines[row + 1] : c >= col + 1 /\ v.lines[row + 1][c].text # <<" ">>

\* the number, in its line of the frame, of the segment that holds the cell
SegmentIndex(v, row, col) ==
    LET cells == v.lines[row + 1]
        key(c) == style_key(applied_style(cells[c].style))
    IN 1 + Cardinality({c \in 2..(col + 1) : key(c) # key(c - 1)})

\* the segment of the frame that holds the cell, None for a trimmed cell
SegmentOf(v, row, col) ==
    IF Shown(v, row, col)
    THEN Some(into_frame(v).lines[row + 1].segments[SegmentIndex(v, row, col)])
    ELSE None

\* the fg colours of the SGR codes 30-37
SgrForegrounds == {Some(Palette[i]) : i \in 1..8}

C31_CsiClearsWrap ==
    [][\A piece \in CsiTable : VtFeed(piece) => ~vt'.wrap_pending]_vars

\* C32: an SGR 38 or 48 that is not followed by a well-formed 2;r;g;b or
\* 5;index leaves the active style unchanged: the mode parameter is skipped
\* and not interpreted as an SGR code.
C32_MalformedExtendedKeepsStyle ==
    [][\A piece \in SgrMalformed : VtFeed(piece) => vt'.style = vt.style]_vars

\* the number of chars in the texts of the segments
RECURSIVE EmittedLen(_)
EmittedLen(segments) ==
    IF segments = <<>> THEN 0
    ELSE Len(Head(segments).text) + EmittedLen(Tail(segments))

\* C34: in an emitted row a cell whose text is a single space and whose
\* style is not the default is not trimmed: the segments of the row hold
\* the cells up to that one.
C34_StyledSpaceKept ==
    VtEmitted =>
        \A r \in DOMAIN vt.lines : \A i \in DOMAIN vt.lines[r] :
            (vt.lines[r][i].text = <<" ">> /\ vt.lines[r][i].style # DefaultStyle)
                => EmittedLen(vio.frame.lines[r].segments) >= i

\* C33: a tab with the cursor at column c writes spaces from column c on
\* and leaves the cursor at the next multiple of 8 greater than c, on the
\* same row, for every cursor column and every grid width.
C33_TabToNextStop ==
    [][VtFeed(Tab)
       => LET c == vt.cursor_col
              stop == ((c \div 8) + 1) * 8
          IN /\ vt'.cursor_row = vt.cursor_row
             /\ vt'.cursor_col = stop
             /\ \A col \in c..(stop - 1) :
                   vt'.lines[vt.cursor_row + 1][col + 1].text = <<" ">>]_vars

\* lines with ch appended to the text of the cell at (row, col), 0-based
Appended(lines, row, col, ch) ==
    [lines EXCEPT ![row + 1][col + 1].text = Append(@, ch)]

\* C37: a zero-width char is appended to the text of one cell, which after
\* a write in the last column (wrap pending) is the cell at the cursor, the
\* one holding the char written last; no other cell, no style and not the
\* cursor changes.
C37_ZeroWidthOnLastChar ==
    [][\A piece \in ZeroWidth :
          VtFeed(piece)
          => /\ vt'.cursor_row = vt.cursor_row
             /\ vt'.cursor_col = vt.cursor_col
             /\ vt'.style = vt.style
             /\ \E col \in 0..(vt.cols - 1) :
                   /\ vt'.lines = Appended(vt.lines, vt.cursor_row, col, piece[1])
                   /\ vt.wrap_pending => col = vt.cursor_col]_vars

\* the rows of the region [top, bottom] moved up by one, a blank row at the
\* bottom, every row outside the region as it was
RegionScrolledUp(old, new, top, bottom, cols) ==
    /\ Len(new) = Len(old)
    /\ \A r \in 0..(Len(old) - 1) :
          new[r + 1] = IF r < top \/ r > bottom THEN old[r + 1]
                       ELSE IF r < bottom THEN old[r + 2]
                       ELSE [i \in 1..cols |-> [text |-> <<" ">>, style |-> DefaultStyle]]

LineFeedStep == VtFeed(LineFeed) \/ VtFeed(Index)

\* C35: a line-feed with the cursor on the bottom row of the scroll region
\* moves the rows of [top, bottom] up by one and leaves the rows outside and
\* the cursor as they were; any other line-feed changes no cell and advances
\* the cursor row by one, capped at rows - 1.
C35_LineFeedScrollsRegionOnly ==
    [][LineFeedStep
       => IF vt.cursor_row >= vt.scroll_top /\ vt.cursor_row = vt.scroll_bottom
          THEN /\ RegionScrolledUp(vt.lines, vt'.lines, vt.scroll_top, vt.scroll_bottom, vt.cols)
               /\ vt'.cursor_row = vt.cursor_row
               /\ vt'.cursor_col = vt.cursor_col
          ELSE /\ vt'.lines = vt.lines
               /\ vt'.cursor_row = Min(vt.cursor_row + 1, vt.rows - 1)
               /\ vt'.cursor_col = vt.cursor_col]_vars

\* a region that starts below row 0 has scrolled: row 0 kept its char, the
\* "b" of the region's bottom row is one row up, the bottom row is blank and
\* the cursor is where it was
C35_Witness ==
    /\ vt.scroll_top = 1 /\ vt.scroll_bottom = 2
    /\ vt.cursor_row = 2 /\ vt.cursor_col = 1
    /\ vt.lines[1][1].text = <<"a">>
    /\ vt.lines[2][1].text = <<"b">>
    /\ vt.lines[3][1].text = <<" ">>

\* a width-1 char put in the last column: the cursor stays, the wrap is pending
WrapDeferred ==
    [][(VtFeed(<<"a">>) /\ ~vt.wrap_pending /\ vt.cursor_col = vt.cols - 1)
       => /\ vt'.wrap_pending
          /\ vt'.cursor_row = vt.cursor_row
          /\ vt'.cursor_col = vt.cursor_col
          /\ vt'.lines[vt.cursor_row + 1][vt.cols].text = <<"a">>]_vars

\* a carriage return while the wrap is pending: column 0 of the same row, and
\* the char after it lands there
WrapCancelled ==
    /\ [][(VtFeed(CarriageReturn) /\ vt.wrap_pending)
          => /\ ~vt'.wrap_pending
             /\ vt'.cursor_row = vt.cursor_row
             /\ vt'.cursor_col = 0
             /\ vt'.lines = vt.lines]_vars
    /\ [][(VtFeed(<<"a">>) /\ ~vt.wrap_pending /\ vt.cursor_col = 0)
          => /\ vt'.cursor_row = vt.cursor_row
             /\ vt'.lines[vt.cursor_row + 1][1].text = <<"a">>]_vars

\* C36 as stated: a width-1 char in the last column leaves the cursor there
\* with the wrap pending; the next width-1 char is written at column 0 of
\* the following line, the region scrolling when the cursor is on its bottom
\* row; a carriage return in between makes it overwrite the same row.
C36_WrapToFollowingLine ==
    /\ WrapDeferred
    /\ WrapCancelled
    /\ [][(VtFeed(<<"a">>) /\ vt.wrap_pending)
          => IF vt.cursor_row >= vt.scroll_top /\ vt.cursor_row = vt.scroll_bottom
             THEN /\ vt'.cursor_row = vt.cursor_row
                  /\ vt'.cursor_col = 1
                  /\ vt'.lines[vt.cursor_row][vt.cols].text = vt.lines[vt.cursor_row + 1][vt.cols].text
                  /\ vt'.lines[vt.cursor_row + 1][1].text = <<"a">>
             ELSE /\ vt'.cursor_row = vt.cursor_row + 1
                  /\ vt'.cursor_col = 1
                  /\ vt'.lines[vt.cursor_row + 1] = vt.lines[vt.cursor_row + 1]
                  /\ vt'.lines[vt.cursor_row + 2][1].text = <<"a">>]_vars

\* C36, amended: as stated, except that on the last row of the grid, when
\* that row is not the bottom of the scroll region, no line follows and
\* nothing scrolls: the next width-1 char is written at column 0 of that
\* same row.
C36_WrapToFollowingLineOrLastRow ==
    /\ WrapDeferred
    /\ WrapCancelled
    /\ [][(VtFeed(<<"a">>) /\ vt.wrap_pending)
          => IF vt.cursor_row >= vt.scroll_top /\ vt.cursor_row = vt.scroll_bottom
             THEN /\ vt'.cursor_row = vt.cursor_row
                  /\ vt'.cursor_col = 1
                  /\ vt'.lines[vt.cursor_row][vt.cols].text = vt.lines[vt.cursor_row + 1][vt.cols].text
                  /\ vt'.lines[vt.cursor_row + 1][1].text = <<"a">>
             ELSE IF vt.cursor_row = vt.rows - 1
             THEN /\ vt'.cursor_row = vt.cursor_row
                  /\ vt'.cursor_col = 1
                  /\ vt'.lines = [vt.lines EXCEPT ![vt.cursor_row + 1][1] = vt'.lines[vt.cursor_row + 1][1]]
                  /\ vt'.lines[vt.cursor_row + 1][1].text = <<"a">>
             ELSE /\ vt'.cursor_row = vt.cursor_row + 1
                  /\ vt'.cursor_col = 1
                  /\ vt'.lines[vt.cursor_row + 1] = vt.lines[vt.cursor_row + 1]
                  /\ vt'.lines[vt.cursor_row + 2][1].text = <<"a">>]_vars

\* a row was filled and the char after it went to column 0 of the next row
C36_Witness ==
    /\ \A i \in 1..vt.cols : vt.lines[1][i].text = <<"a">>
    /\ vt.lines[2][1].text = <<"a">>
    /\ vt.lines[2][2].text = <<" ">>
    /\ vt.cursor_row = 1 /\ vt.cursor_col = 1
    /\ ~vt.wrap_pending

====
